---- MODULE Spec2Model ----
(***************************************************************************)
(* ferris_draw: the drawer registry, the Lua command surface, the demo     *)
(* buffer (record / playback) and the UI handlers that drive them.         *)
(*                                                                         *)
(* Conventions of the model                                                *)
(*  - A Lua call (a statement of a script, or the text a DemoStep renders  *)
(*    to) is a record [fn, id, args, body]: the global name that is        *)
(*    called, its string argument, its numeric arguments, and, for a       *)
(*    `for` loop, the statements of the loop body.                         *)
(*  - A DemoStep is a record [kind, id, args, body] with the variant name  *)
(*    in kind.                                                             *)
(*  - f32 values are integers; headings are integer degrees, and a drawer  *)
(*    moves only at headings that are multiples of 90, for which the       *)
(*    snapped sine and cosine are exactly 0, 1 or -1 (point_to can turn a  *)
(*    drawer to a diagonal; the bounds on the calls end a behaviour before *)
(*    a drawer moves along one).                                           *)
(*  - A script runs inside the click handler that started it (Run, Create  *)
(*    Demo). The handler is split at the calls the script makes, so that   *)
(*    the state between two calls can be stated; while a script runs       *)
(*    (session.kind # "idle") no other handler is enabled, as in the       *)
(*    single-threaded UI frame.                                            *)
(*                                                                         *)
(* Specifications                                                          *)
(*  - Spec: scripts, recording and playback of demos.                      *)
(*  - SpecCmd: every registered function, called by recording scripts and  *)
(*    by on_input callbacks, in the buffer states None, Record, Playback.  *)
(*  - SpecFill: fill, the draw system that receives its requests, and the  *)
(*    functions that change a drawer, on registries that hold a polyline.  *)
(*  - SpecTri: fill on three drawers that each hold a side of a triangle.  *)
(*  - SpecQuery: notification and the functions that read the registry,    *)
(*    called in the buffer states None, Record and Playback.               *)
(*  - SpecBuf: push and set_len on a SetLenBuffer.                         *)
(*  - SpecRot: rotate, with the rounding of the f32 sum of the heading and *)
(*    the amount (elsewhere the sums are small and exact).                 *)
(*  - SpecFmt: the text a DemoStep renders to.                             *)
(*  - SpecNaN: recording scripts that pass NaN to the functions that take  *)
(*    numbers.                                                             *)
(*  - SpecRec: fill called by a recording script over a registry that held *)
(*    a drawing when Create Demo was clicked.                              *)
(*  - SpecFillFair: SpecFill with weak fairness of the draw system.        *)
(***************************************************************************)
EXTENDS Integers, Sequences, FiniteSets, TLC

VARIABLES
    drawers,                \* Drawers: the shared DashMap<String, Drawer>
    buffer,                 \* DemoBuffer.buffer (shared by every clone)
    state,                  \* DemoBuffer.state  (shared by every clone)
    iter_idx,               \* UiState.demo_buffer.iter_idx
    demos,                  \* UiState.demos
    draw_requests,          \* DrawRequester channel, oldest first
    output_list,            \* the command line output list `print` pushes to
    toasts,                 \* the toasts `notification` has added
    set_len_buffer,         \* a SetLenBuffer<T>: inner_buffer and buffer_length
    session,                \* the script the Lua runtime is executing, if any
    current_drawer_canvas,  \* local of the Create Demo handler
    crashed,                \* a handler panicked
    calls,                  \* number of Lua calls issued so far
    straight,               \* this playback began at cursor 0 and only stepped forward
    last                    \* the handler that ran last, and its outcome

vars == <<drawers, buffer, state, iter_idx, demos, draw_requests, output_list,
          toasts, set_len_buffer, session, current_drawer_canvas, crashed, calls, straight, last>>

-----------------------------------------------------------------------------
(* Bounds *)

MaxCalls == 3

MaxDemos == 2

MaxCmdCalls == 2

\* the lines of output after which SpecCmd replays no more steps
MaxOutput == 2

\* the fill calls of SpecFill
MaxFillCalls == 3

\* the fill calls of SpecTri
MaxTriCalls == 2
MaxQueryCalls == 3
MaxBufLen == 3
MaxRotCalls == 2
MaxLoopCount == 3
MaxNaNCalls == 3

\* the drawer's positions in SpecFill lie on the lattice 0..MaxX by 0..MaxY
MaxX == 3

MaxY == 2

-----------------------------------------------------------------------------
(* Values *)

Vec2(x, y) == <<x, y>>

Vec3(x, y, z) == <<x, y, z>>

WHITE == [space |-> "Srgba", rgba |-> <<1, 1, 1, 1>>]

linear_rgba(r, g, b, a) == [space |-> "LinearRgba", rgba |-> <<r, g, b, a>>]

LineStrip(points) == points

FilledPolygonPoints(points, c) == [points |-> points, color |-> c]

DrawingsDefault ==
    [lines |-> << LineStrip(<< <<Vec3(0, 0, 0), WHITE>> >>) >>, polygons |-> << >>]

DrawerDefault ==
    [enabled |-> TRUE,
     pos |-> Vec2(0, 0),
     ang |-> 90,
     drawings |-> DrawingsDefault,
     color |-> WHITE]

\* Lua calls
Call(fn, id, args) == [fn |-> fn, id |-> id, args |-> args, body |-> << >>]

ForLoop(count, body) == [fn |-> "for", id |-> "", args |-> <<count>>, body |-> body]

\* DemoStep variants
Step(kind, id, args) == [kind |-> kind, id |-> id, args |-> args, body |-> << >>]

LoopStep(count, steps) == [kind |-> "Loop", id |-> "", args |-> <<count>>, body |-> steps]

\* name is the script the demo was recorded from (the script's name stands for
\* its text); origin tells a recorded demo from an imported one
DemoInstance(name, demo_steps, origin) ==
    [name |-> name, demo_steps |-> demo_steps, origin |-> origin]

\* DemoBufferState
StateNone == "None"

StateRecord == "Record"

StatePlayback == "Playback"

-----------------------------------------------------------------------------
(* DashMap operations on the registry *)

EmptyMap == << >>

contains_key(map, id) == id \in DOMAIN map

insert(map, id, v) == [k \in (DOMAIN map) \cup {id} |-> IF k = id THEN v ELSE map[k]]

remove_key(map, id) == [k \in (DOMAIN map) \ {id} |-> map[k]]

-----------------------------------------------------------------------------
(* Numeric helpers *)

Abs(x) == IF x < 0 THEN 0 - x ELSE x

\* Unit of the fixed-point trigonometric values below: 10^-8.
TrigUnit == 100000000

\* f32 cosine of a heading, in units of 10^-8 (multiples of 90 degrees).
RawCos(deg) ==
    CASE deg % 360 = 0 -> TrigUnit
      [] deg % 360 = 90 -> -4
      [] deg % 360 = 180 -> 0 - TrigUnit
      [] deg % 360 = 270 -> 1

\* f32 sine of a heading, in units of 10^-8 (multiples of 90 degrees).
RawSin(deg) ==
    CASE deg % 360 = 0 -> 0
      [] deg % 360 = 90 -> TrigUnit
      [] deg % 360 = 180 -> -9
      [] deg % 360 = 270 -> 0 - TrigUnit

\* |float| < 0.000001 is snapped to 0 (argument in units of 10^-8).
floating_point_calculation_error(float) == IF Abs(float) < 100 THEN 0 ELSE float

\* The spacing of the f32 values around an integer of magnitude a: 1 below
\* 2^24, where every integer is an f32, and doubling with every further bit.
RECURSIVE ulp(_)
ulp(a) == IF a < 16777216 THEN 1 ELSE 2 * ulp(a \div 2)

\* The f32 result of an operation whose exact result is the integer x: the
\* nearest f32, the one with the even significand when two are as near.
f32(x) ==
    LET a == Abs(x)
        u == ulp(a)
        q == a \div u
        r == a % u
        n == IF 2 * r > u \/ (2 * r = u /\ q % 2 = 1) THEN (q + 1) * u ELSE q * u
    IN  IF x < 0 THEN 0 - n ELSE n

\* f32::NAN, which a script passes as 0/0: a number that stands for it, far
\* from every number the scripts of the model pass or compute. It is passed
\* only to calls made while recording, which store their arguments and
\* compute nothing.
NaN == 0 - 2147483647

\* the argument is stored as it was passed
NonNaN_unchecked(x) == x

\* NonNaN::<f32>::new(x).unwrap_or_default(): new fails on NaN, and the
\* default is 0.
NonNaN(x) == IF x = NaN THEN 0 ELSE x

-----------------------------------------------------------------------------
(* SetLenBuffer<T>: a VecDeque and the length it is meant to keep to.       *)

SetLenBuffer(inner_buffer, buffer_length) ==
    [inner_buffer |-> inner_buffer, buffer_length |-> buffer_length]

SetLenBuffer_new(buffer_length) == SetLenBuffer(<< >>, buffer_length)

\* VecDeque::pop_front: nothing happens on an empty deque
pop_front(deque) == IF deque = << >> THEN deque ELSE Tail(deque)

push(buf, item) ==
    LET popped == IF Len(buf.inner_buffer) >= buf.buffer_length
                  THEN pop_front(buf.inner_buffer)
                  ELSE buf.inner_buffer
    IN  [buf EXCEPT !.inner_buffer = Append(popped, item)]

set_len(buf, len) == [buf EXCEPT !.buffer_length = len]

-----------------------------------------------------------------------------
(* The Lua command surface (init_lua_functions).                            *)
(* env is the shared state the closures capture:                            *)
(*   [drawers, buffer, draw_requests, output_list, toasts]                  *)
(* st is the DemoBufferState read through the shared state lock.            *)
(* Each function returns [ok, env, error, value]: ok = FALSE is the Lua      *)
(* runtime error, whose message is error; value holds the values returned   *)
(* to the script.                                                           *)

OkValue(env, value) == [ok |-> TRUE, env |-> env, error |-> "", value |-> value]

Ok(env) == OkValue(env, << >>)

RuntimeError(env, message) ==
    [ok |-> FALSE, env |-> env, error |-> message, value |-> << >>]

\* a call of a global that is not set
Err(env) == RuntimeError(env, "attempt to call a nil value")

\* r#"The drawer with handle "{id}" doesn't exist."#
NotFound(env) == RuntimeError(env, "doesn't exist")

\* r#"The drawer with handle "{id}" already exists."#
AlreadyExists(env) == RuntimeError(env, "already exists")

\* DemoBuffer::get_state_if_eq: Some(&buffer) iff the state equals the argument
get_state_if_eq(st, buffer_state) == st = buffer_state

\* buffer.write().push(step)
push_step(env, step) == [env EXCEPT !.buffer = Append(@, step)]

\* the closure's `drawer` guard: apply f-result d to the entry of id
set_drawer(env, id, d) == [env EXCEPT !.drawers = [@ EXCEPT ![id] = d]]

\* print that logs its step in every buffer state
print_fn_logs_always(env, st, msg) ==
    Ok(push_step(env, Step("Print", msg, << >>)))

print_fn(env, st, msg) ==
    IF get_state_if_eq(st, StateRecord)
    THEN Ok(push_step(env, Step("Print", msg, << >>)))
    ELSE Ok([env EXCEPT !.output_list = Append(@, msg)])

\* while recording the step is logged and nothing is inserted
new_logs_only(env, st, id) ==
    IF ~contains_key(env.drawers, id)
    THEN IF get_state_if_eq(st, StateRecord)
         THEN Ok(push_step(env, Step("New", id, << >>)))
         ELSE Ok([env EXCEPT !.drawers = insert(@, id, DrawerDefault)])
    ELSE AlreadyExists(env)

\* the default drawer is inserted whether or not the id is taken
new_overwrites(env, st, id) ==
    LET logged == IF get_state_if_eq(st, StateRecord)
                  THEN push_step(env, Step("New", id, << >>))
                  ELSE env
    IN  Ok([logged EXCEPT !.drawers = insert(@, id, DrawerDefault)])

new(env, st, id) ==
    IF ~contains_key(env.drawers, id)
    THEN LET logged == IF get_state_if_eq(st, StateRecord)
                       THEN push_step(env, Step("New", id, << >>))
                       ELSE env
         IN  Ok([logged EXCEPT !.drawers = insert(@, id, DrawerDefault)])
    ELSE AlreadyExists(env)

\* while recording the step is logged before the drawer is looked up
rotate_drawer_logs_unchecked(env, st, id, degrees) ==
    IF get_state_if_eq(st, StateRecord)
    THEN Ok(push_step(env, Step("Rotate", id, <<NonNaN(degrees)>>)))
    ELSE IF contains_key(env.drawers, id)
         THEN LET drawer == env.drawers[id]
              IN  Ok(set_drawer(env, id, [drawer EXCEPT !.ang = f32(@ + degrees)]))
         ELSE NotFound(env)

\* Angle keeps radians; from_degrees and to_degrees are taken as exact on the
\* whole degrees modelled, the f32 sum of the heading and the amount is rounded
rotate_drawer(env, st, id, degrees) ==
    IF contains_key(env.drawers, id)
    THEN IF get_state_if_eq(st, StateRecord)
         THEN Ok(push_step(env, Step("Rotate", id, <<NonNaN(degrees)>>)))
         ELSE LET drawer == env.drawers[id]
              IN  Ok(set_drawer(env, id, [drawer EXCEPT !.ang = f32(@ + degrees)]))
    ELSE NotFound(env)

set_drawer_angle(env, st, id, degrees) ==
    IF contains_key(env.drawers, id)
    THEN IF get_state_if_eq(st, StateRecord)
         THEN Ok(push_step(env, Step("SetAngle", id, <<NonNaN(degrees)>>)))
         ELSE LET drawer == env.drawers[id]
              IN  Ok(set_drawer(env, id, [drawer EXCEPT !.ang = degrees]))
    ELSE NotFound(env)

center(env, st, id) ==
    IF contains_key(env.drawers, id)
    THEN IF get_state_if_eq(st, StateRecord)
         THEN Ok(push_step(env, Step("Center", id, << >>)))
         ELSE LET drawer == env.drawers[id]
                  strip == LineStrip(<< <<Vec3(0, 0, 0), drawer.color>> >>)
              IN  Ok(set_drawer(env, id,
                        [drawer EXCEPT !.pos = Vec2(0, 0),
                                       !.drawings.lines = Append(@, strip),
                                       !.ang = 90]))
    ELSE NotFound(env)

color(env, st, id, red, green, blue, alpha) ==
    IF contains_key(env.drawers, id)
    THEN IF get_state_if_eq(st, StateRecord)
         THEN Ok(push_step(env, Step("Color", id,
                    <<NonNaN(red), NonNaN(green), NonNaN(blue), NonNaN(alpha)>>)))
         ELSE LET drawer == env.drawers[id]
              IN  Ok(set_drawer(env, id,
                        [drawer EXCEPT !.color = linear_rgba(red, green, blue, alpha)]))
    ELSE NotFound(env)

\* push onto lines.last_mut().unwrap().points
push_last(lines, point) == [lines EXCEPT ![Len(lines)] = Append(@, point)]

\* forward that draws the new point whether or not the pen is down
forward_draws_always(env, st, id, amount) ==
    IF contains_key(env.drawers, id)
    THEN IF get_state_if_eq(st, StateRecord)
         THEN Ok(push_step(env, Step("Forward", id, <<NonNaN(amount)>>)))
         ELSE LET drawer == env.drawers[id]
                  origin == drawer.pos
                  x == origin[1]
                       + (amount * floating_point_calculation_error(RawCos(drawer.ang)))
                         \div TrigUnit
                  y == origin[2]
                       + (amount * floating_point_calculation_error(RawSin(drawer.ang)))
                         \div TrigUnit
                  drawn == [drawer EXCEPT !.drawings.lines =
                               push_last(@, <<Vec3(x, y, 0), drawer.color>>)]
              IN  Ok(set_drawer(env, id, [drawn EXCEPT !.pos = Vec2(x, y)]))
    ELSE NotFound(env)

forward(env, st, id, amount) ==
    IF contains_key(env.drawers, id)
    THEN IF get_state_if_eq(st, StateRecord)
         THEN Ok(push_step(env, Step("Forward", id, <<NonNaN(amount)>>)))
         ELSE LET drawer == env.drawers[id]
                  origin == drawer.pos
                  x == origin[1]
                       + (amount * floating_point_calculation_error(RawCos(drawer.ang)))
                         \div TrigUnit
                  y == origin[2]
                       + (amount * floating_point_calculation_error(RawSin(drawer.ang)))
                         \div TrigUnit
                  drawn == IF drawer.enabled
                           THEN [drawer EXCEPT !.drawings.lines =
                                    push_last(@, <<Vec3(x, y, 0), drawer.color>>)]
                           ELSE drawer
              IN  Ok(set_drawer(env, id, [drawn EXCEPT !.pos = Vec2(x, y)]))
    ELSE NotFound(env)

\* the drawings wipe gives one drawer
\* the drawings are left without any strip
wiped_without_strip(drawer) ==
    [drawer EXCEPT !.drawings = [lines |-> << >>, polygons |-> << >>]]

wiped(drawer) ==
    [drawer EXCEPT !.drawings =
        [DrawingsDefault EXCEPT !.lines =
            Append(@, LineStrip(<< <<Vec3(drawer.pos[1], drawer.pos[2], 0), WHITE>> >>))]]

wipe(env, st) ==
    IF get_state_if_eq(st, StateRecord)
    THEN Ok(push_step(env, Step("Wipe", "", << >>)))
    ELSE Ok([env EXCEPT !.drawers = [k \in DOMAIN @ |-> wiped(@[k])]])

exists(env, st, id) == OkValue(env, <<contains_key(env.drawers, id)>>)

\* the whole registry is emptied
remove_clears(env, st, id) ==
    IF ~contains_key(env.drawers, id)
    THEN NotFound(env)
    ELSE LET removed == [env EXCEPT !.drawers = EmptyMap]
         IN  IF get_state_if_eq(st, StateRecord)
             THEN Ok(push_step(removed, Step("Remove", id, << >>)))
             ELSE Ok(removed)

remove(env, st, id) ==
    IF ~contains_key(env.drawers, id)
    THEN NotFound(env)
    ELSE LET removed == [env EXCEPT !.drawers = remove_key(@, id)]
         IN  IF get_state_if_eq(st, StateRecord)
             THEN Ok(push_step(removed, Step("Remove", id, << >>)))
             ELSE Ok(removed)

\* the names are pushed in the iteration order of the DashMap
drawers_fn(env, st, order) == OkValue(env, order)

\* enable that sets the flag and starts no strip
enable_without_strip(env, st, id) ==
    IF contains_key(env.drawers, id)
    THEN IF get_state_if_eq(st, StateRecord)
         THEN Ok(push_step(env, Step("Enable", id, << >>)))
         ELSE Ok(set_drawer(env, id, [env.drawers[id] EXCEPT !.enabled = TRUE]))
    ELSE NotFound(env)

\* enable that starts a strip only when the pen was up
enable_once(env, st, id) ==
    IF contains_key(env.drawers, id)
    THEN IF get_state_if_eq(st, StateRecord)
         THEN Ok(push_step(env, Step("Enable", id, << >>)))
         ELSE LET drawer == env.drawers[id]
                  tuple == <<Vec3(drawer.pos[1], drawer.pos[2], 0), drawer.color>>
              IN  IF drawer.enabled
                  THEN Ok(env)
                  ELSE Ok(set_drawer(env, id,
                             [drawer EXCEPT !.enabled = TRUE,
                                            !.drawings.lines =
                                                Append(@, LineStrip(<<tuple>>))]))
    ELSE NotFound(env)

enable(env, st, id) ==
    IF contains_key(env.drawers, id)
    THEN IF get_state_if_eq(st, StateRecord)
         THEN Ok(push_step(env, Step("Enable", id, << >>)))
         ELSE LET drawer == env.drawers[id]
                  tuple == <<Vec3(drawer.pos[1], drawer.pos[2], 0), drawer.color>>
              IN  Ok(set_drawer(env, id,
                        [drawer EXCEPT !.enabled = TRUE,
                                       !.drawings.lines = Append(@, LineStrip(<<tuple>>))]))
    ELSE NotFound(env)

disable(env, st, id) ==
    IF contains_key(env.drawers, id)
    THEN IF get_state_if_eq(st, StateRecord)
         THEN Ok(push_step(env, Step("Disable", id, << >>)))
         ELSE Ok(set_drawer(env, id, [env.drawers[id] EXCEPT !.enabled = FALSE]))
    ELSE NotFound(env)

\* egui_toast::ToastKind of a notification type
ToastKind(notification_type) ==
    CASE notification_type = 1 -> "Info"
      [] notification_type = 2 -> "Success"
      [] notification_type = 3 -> "Error"
      [] notification_type = 4 -> "Warning"
      [] OTHER -> <<"Custom", notification_type>>

Toast(kind, text) == [kind |-> kind, text |-> text]

\* notification that adds its toast in every buffer state
notification_always_shown(env, st, notification_type, text) ==
    Ok([env EXCEPT !.toasts = Append(@, Toast(ToastKind(notification_type), text))])

notification(env, st, notification_type, text) ==
    IF st = StateRecord
    THEN Ok(env)
    ELSE Ok([env EXCEPT !.toasts = Append(@, Toast(ToastKind(notification_type), text))])

position(env, st, id) ==
    IF contains_key(env.drawers, id)
    THEN OkValue(env, env.drawers[id].pos)
    ELSE NotFound(env)

rectangle(env, st, id, desired_x, desired_y) ==
    IF contains_key(env.drawers, id)
    THEN IF get_state_if_eq(st, StateRecord)
         THEN Ok(push_step(env, Step("Rectangle", id,
                    <<NonNaN(desired_x), NonNaN(desired_y)>>)))
         ELSE LET drawer == env.drawers[id]
                  px == drawer.pos[1]
                  py == drawer.pos[2]
                  polygon == FilledPolygonPoints(
                                <<Vec3(px, py, 0),
                                  Vec3(px + desired_x, py, 0),
                                  Vec3(px + desired_x, py + desired_y, 0),
                                  Vec3(px, py + desired_y, 0)>>,
                                drawer.color)
              IN  Ok(set_drawer(env, id,
                        [drawer EXCEPT !.drawings.polygons = Append(@, polygon)]))
    ELSE NotFound(env)

\* f32::atan2(dy, dx) in degrees, for the axis-parallel and diagonal directions
atan2_degrees(dy, dx) ==
    CASE dy = 0 /\ dx >= 0 -> 0
      [] dy = 0 /\ dx < 0 -> 180
      [] dy > 0 /\ dx = 0 -> 90
      [] dy < 0 /\ dx = 0 -> -90
      [] dy > 0 /\ dx = dy -> 45
      [] dy > 0 /\ dx = 0 - dy -> 135
      [] dy < 0 /\ dx = dy -> -135
      [] dy < 0 /\ dx = 0 - dy -> -45

point_to(env, st, id, point_to_x, point_to_y) ==
    IF contains_key(env.drawers, id)
    THEN IF get_state_if_eq(st, StateRecord)
         THEN Ok(push_step(env, Step("Rectangle", id,
                    <<NonNaN(point_to_x), NonNaN(point_to_y)>>)))
         ELSE LET drawer == env.drawers[id]
                  dy == drawer.pos[2] - point_to_y
                  dx == drawer.pos[1] - point_to_x
              IN  Ok(set_drawer(env, id,
                        [drawer EXCEPT !.ang = atan2_degrees(dy, dx) - 90]))
    ELSE NotFound(env)

-----------------------------------------------------------------------------
(* The fill scan (the `fill` closure and impl Line).                        *)
(* A Line is [min, max], two Vec3.                                          *)

Line(min, max) == [min |-> min, max |-> max]

\* slope (max.y - min.y) / (max.x - min.x) as a fraction <<num, den>>, den > 0;
\* a vertical line gets slope 0
slope(line) ==
    LET dx == line.max[1] - line.min[1]
        dy == line.max[2] - line.min[2]
    IN  IF dx = 0 THEN <<0, 1>>
        ELSE IF dx < 0 THEN <<0 - dy, 0 - dx>> ELSE <<dy, dx>>

\* within the bounding box of the segment; the point is <<xn, xd, yn, yd>>,
\* the fractions xn/xd and yn/yd with xd, yd > 0
is_point_on_segment(line, point) ==
    LET Min(a, b) == IF a < b THEN a ELSE b
        Max(a, b) == IF a < b THEN b ELSE a
        within_x_bounds ==
            /\ point[1] >= Min(line.min[1], line.max[1]) * point[2]
            /\ point[1] <= Max(line.min[1], line.max[1]) * point[2]
        within_y_bounds ==
            /\ point[3] >= Min(line.min[2], line.max[2]) * point[4]
            /\ point[3] <= Max(line.min[2], line.max[2]) * point[4]
    IN  within_x_bounds /\ within_y_bounds

\* Option<Vec3>: << >> is None, <<p>> is Some(p)
intersects(self, other_line) ==
    LET m1 == slope(self)
        m2 == slope(other_line)
        \* y-intercepts b = min.y - m * min.x, as numerators over the slope's den
        b1 == self.min[2] * m1[2] - m1[1] * self.min[1]
        b2 == other_line.min[2] * m2[2] - m2[1] * other_line.min[1]
        \* intersection_x = (b2 - b1) / (m1 - m2), sign-normalised
        xn0 == b2 * m1[2] - b1 * m2[2]
        xd0 == m1[1] * m2[2] - m2[1] * m1[2]
        xn == IF xd0 < 0 THEN 0 - xn0 ELSE xn0
        xd == IF xd0 < 0 THEN 0 - xd0 ELSE xd0
        \* intersection_y = m1 * intersection_x + b1
        yn == m1[1] * xn + b1 * xd
        yd == xd * m1[2]
        intersection_point == <<xn, xd, yn, yd>>
    IN  IF self = other_line THEN << >>
        ELSE IF other_line.max = self.min \/ self.min = other_line.min
        THEN << Vec3(self.min[1], self.min[2], 0) >>
        ELSE IF self.max = other_line.min \/ self.max = other_line.max
        THEN << Vec3(self.max[1], self.max[2], 0) >>
        ELSE IF m1[1] * m2[2] = m2[1] * m1[2] THEN << >>
        ELSE IF \/ ~is_point_on_segment(self, intersection_point)
                \/ ~is_point_on_segment(other_line, intersection_point)
        THEN << >>
        ELSE << Vec3(xn \div xd, yn \div yd, 0) >>

\* the points of every line strip of every drawer, in the iteration order
\* `order` of the registry
RECURSIVE flatten_strips(_)
flatten_strips(lines) ==
    IF lines = << >> THEN << >>
    ELSE [i \in 1..Len(Head(lines)) |-> Head(lines)[i][1]] \o flatten_strips(Tail(lines))

RECURSIVE flatten_drawers(_, _)
flatten_drawers(map, order) ==
    IF order = << >> THEN << >>
    ELSE flatten_strips(map[Head(order)].drawings.lines)
         \o flatten_drawers(map, Tail(order))

\* positions.windows(2)
windows2(points) ==
    IF Len(points) < 2 THEN << >>
    ELSE [i \in 1..(Len(points) - 1) |-> Line(points[i], points[i + 1])]

cross(a, b, c) == (b[1] - a[1]) * (c[2] - a[2]) - (b[2] - a[2]) * (c[1] - a[1])

\* polygon.convex_hull().contains(&point): the point lies in the interior of
\* the convex hull of the points
hull_contains(points, p) ==
    LET Q == {points[i] : i \in 1..Len(points)}
    IN  /\ \E a \in Q, b \in Q, c \in Q : cross(a, b, c) # 0
        /\ \A a \in Q, b \in Q :
              (a # b /\ \A q \in Q : cross(a, b, q) >= 0) => cross(a, b, p) > 0

\* checked_lines.iter().position(|line| line == checked_line).unwrap()
first_position(checked_lines, checked_line) ==
    CHOOSE i \in 1..Len(checked_lines) :
        /\ checked_lines[i] = checked_line
        /\ \A j \in 1..(i - 1) : checked_lines[j] # checked_line

\* the candidate polygon of an intersection of lines[idx] with checked line k:
\* the intersection followed by the max of checked_lines[position + 1 .. idx]
polygon_points(lines, idx, k, intersection_pos) ==
    LET checked_lines == SubSeq(lines, 1, idx - 1)
        intersected_line_idx == first_position(checked_lines, lines[k])
    IN  <<intersection_pos>>
        \o [i \in 1..(idx - 1 - intersected_line_idx) |->
                lines[intersected_line_idx + i].max]

\* the polygon of the first crossing is sent whether or not it contains the
\* position
RECURSIVE scan_checked_sends_always(_, _, _, _)
scan_checked_sends_always(lines, idx, k, probe) ==
    IF k > idx - 1 THEN << >>
    ELSE IF (idx - 1) - 1 # (k - 1) /\ (idx - 1) > 2
              /\ intersects(lines[idx], lines[k]) # << >>
         THEN << polygon_points(lines, idx, k, intersects(lines[idx], lines[k])[1]) >>
         ELSE scan_checked_sends_always(lines, idx, k + 1, probe)

\* scan_checked without the length test of the checked lines and without
\* the containment test of the candidate
RECURSIVE scan_checked_unguarded(_, _, _, _)
scan_checked_unguarded(lines, idx, k, probe) ==
    IF k > idx - 1 THEN << >>
    ELSE IF (idx - 1) - 1 # (k - 1)
              /\ intersects(lines[idx], lines[k]) # << >>
         THEN << polygon_points(lines, idx, k, intersects(lines[idx], lines[k])[1]) >>
         ELSE scan_checked_unguarded(lines, idx, k + 1, probe)

\* The inner loop over the checked lines for lines[idx] (1-based; the checked
\* lines are lines[1 .. idx-1]), from checked line k on. The result is the
\* sequence of requests sent.
RECURSIVE scan_checked(_, _, _, _)
scan_checked(lines, idx, k, probe) ==
    IF k > idx - 1 THEN << >>
    ELSE IF (idx - 1) - 1 # (k - 1) /\ (idx - 1) > 2
              /\ intersects(lines[idx], lines[k]) # << >>
         THEN LET pts == polygon_points(lines, idx, k, intersects(lines[idx], lines[k])[1])
              IN  IF hull_contains(pts, probe) THEN <<pts>> ELSE << >>
         ELSE scan_checked(lines, idx, k + 1, probe)

\* The outer loop over the lines.
RECURSIVE scan_lines(_, _, _)
scan_lines(lines, idx, probe) ==
    IF idx > Len(lines) THEN << >>
    ELSE scan_checked(lines, idx, 1, probe) \o scan_lines(lines, idx + 1, probe)

\* The iteration orders a DashMap may have (hash order).
RECURSIVE Orders(_)
Orders(S) ==
    IF S = {} THEN {<< >>}
    ELSE UNION {{<<x>> \o o : o \in Orders(S \ {x})} : x \in S}

\* The requests `fill` sends for drawer id when the registry iterates in `order`.
fill_requests(map, order, id) ==
    LET selected_drawer == map[id]
        lines == windows2(flatten_drawers(map, order))
        sent == scan_lines(lines, 1, selected_drawer.pos)
    IN  [i \in 1..Len(sent) |->
            [points |-> sent[i], color |-> selected_drawer.color, id |-> id]]

\* fill adds the polygons to the drawer itself instead of sending them
fill_adds_polygons(env, st, id, order) ==
    IF contains_key(env.drawers, id)
    THEN IF get_state_if_eq(st, StateRecord)
         THEN Ok(push_step(env, Step("Fill", id, << >>)))
         ELSE LET sent == fill_requests(env.drawers, order, id)
              IN  Ok([env EXCEPT !.drawers[id].drawings.polygons =
                         @ \o [i \in 1..Len(sent) |->
                                  FilledPolygonPoints(sent[i].points, sent[i].color)]])
    ELSE NotFound(env)

fill(env, st, id, order) ==
    IF contains_key(env.drawers, id)
    THEN IF get_state_if_eq(st, StateRecord)
         THEN Ok(push_step(env, Step("Fill", id, << >>)))
         ELSE Ok([env EXCEPT !.draw_requests = @ \o fill_requests(env.drawers, order, id)])
    ELSE NotFound(env)

-----------------------------------------------------------------------------
(* The Lua runtime: globals, statements, and DemoStep's text.               *)

\* the keys of a registry in the iteration order given by a permutation of ids
RECURSIVE key_order(_, _)
key_order(map, perm) ==
    IF perm = << >> THEN << >>
    ELSE (IF Head(perm) \in DOMAIN map THEN <<Head(perm)>> ELSE << >>)
         \o key_order(map, Tail(perm))

\* lua_vm.globals().set(name, function): a call of a name that is not set
\* is a runtime error (attempt to call a nil value)
call_global(env, st, c, perm) ==
    CASE c.fn = "new" -> new(env, st, c.id)
      [] c.fn = "remove" -> remove(env, st, c.id)
      [] c.fn = "drawers" -> drawers_fn(env, st, key_order(env.drawers, perm))
      [] c.fn = "rotate" -> rotate_drawer(env, st, c.id, c.args[1])
      [] c.fn = "forward" -> forward(env, st, c.id, c.args[1])
      [] c.fn = "center" -> center(env, st, c.id)
      [] c.fn = "color" -> color(env, st, c.id, c.args[1], c.args[2], c.args[3], c.args[4])
      [] c.fn = "print" -> print_fn(env, st, c.id)
      [] c.fn = "wipe" -> wipe(env, st)
      [] c.fn = "exists" -> exists(env, st, c.id)
      [] c.fn = "enable" -> enable(env, st, c.id)
      [] c.fn = "disable" -> disable(env, st, c.id)
      [] c.fn = "fill" -> fill(env, st, c.id, key_order(env.drawers, perm))
      [] c.fn = "notification" -> notification(env, st, c.args[1], c.id)
      [] c.fn = "position" -> position(env, st, c.id)
      [] c.fn = "rectangle" -> rectangle(env, st, c.id, c.args[1], c.args[2])
      [] c.fn = "set_drawer_angle" -> set_drawer_angle(env, st, c.id, c.args[1])
      [] c.fn = "point_to" -> point_to(env, st, c.id, c.args[1], c.args[2])
      [] OTHER -> Err(env)

\* LuaRuntime::execute_code on a chunk: a sequence of statements, each a call
\* or a numeric `for` with a body; the first error ends the chunk
RECURSIVE execute_block(_, _, _, _)
RECURSIVE execute_for(_, _, _, _, _)
execute_statement(env, st, c, perm) ==
    IF c.fn = "for" THEN execute_for(env, st, c.args[1], c.body, perm)
    ELSE call_global(env, st, c, perm)

\* after a statement with result r: the rest of the block, unless r is an error
rest_of_block(r, st, rest, perm) ==
    IF r.ok THEN execute_block(r.env, st, rest, perm) ELSE r

execute_block(env, st, block, perm) ==
    IF block = << >> THEN Ok(env)
    ELSE rest_of_block(execute_statement(env, st, Head(block), perm), st, Tail(block), perm)

\* after an iteration with result r: the remaining iterations, unless r is an error
rest_of_for(r, st, count, body, perm) ==
    IF r.ok THEN execute_for(r.env, st, count, body, perm) ELSE r

execute_for(env, st, count, body, perm) ==
    IF count <= 0 THEN Ok(env)
    ELSE rest_of_for(execute_block(env, st, body, perm), st, count - 1, body, perm)

execute_code(env, st, code, perm) == execute_statement(env, st, code, perm)

\* impl Display for DemoStep
RECURSIVE to_string(_)
to_string(step) ==
    CASE step.kind = "New" -> Call("new", step.id, << >>)
      [] step.kind = "Center" -> Call("center", step.id, << >>)
      [] step.kind = "Forward" -> Call("forward", step.id, step.args)
      [] step.kind = "Rotate" -> Call("rotate", step.id, step.args)
      [] step.kind = "Color" -> Call("color", step.id, step.args)
      [] step.kind = "Wipe" -> Call("wipe", "", << >>)
      [] step.kind = "Remove" -> Call("remove", step.id, << >>)
      [] step.kind = "Disable" -> Call("disable", step.id, << >>)
      [] step.kind = "Enable" -> Call("disable", step.id, << >>)
      [] step.kind = "Fill" -> Call("fill", step.id, << >>)
      [] step.kind = "Rectangle" -> Call("rectangle", step.id, step.args)
      [] step.kind = "Print" -> Call("print", step.id, << >>)
      [] step.kind = "Loop" ->
            ForLoop(step.args[1], [i \in 1..Len(step.body) |-> to_string(step.body[i])])
      [] step.kind = "SetAngle" -> Call("set_angle", step.id, step.args)
      [] step.kind = "PointTo" -> Call("point_to", step.id, step.args)

\* [String].join(sep)
RECURSIVE join(_, _)
join(strings, sep) ==
    IF strings = << >> THEN ""
    ELSE IF Len(strings) = 1 THEN strings[1]
    ELSE strings[1] \o sep \o join(Tail(strings), sep)

\* format!("{x}") of the numbers of a step: a whole f32 prints without a
\* fraction
numbers(args) == join([n \in 1 .. Len(args) |-> ToString(args[n])], ", ")

\* format!(name("{id}")) and format!(name("{id}", {x}, ..))
fmt_call(name, id, args) ==
    IF args = << >>
    THEN name \o "(\"" \o id \o "\")"
    ELSE name \o "(\"" \o id \o "\", " \o numbers(args) \o ")"

\* a loop rendered with a counter that starts at 0
fmt_loop_from_zero(count, rendered) ==
    "for i=0," \o ToString(count) \o " do " \o join(rendered, "\n") \o " end"

\* the Loop arm of Display: the renderings of the inner steps joined by
\* line breaks
fmt_loop(count, rendered) ==
    "for i=1," \o ToString(count) \o " do " \o join(rendered, "\n") \o " end"

\* Display for DemoStep, as text; to_string above is this text as the Lua
\* runtime parses it
RECURSIVE fmt(_)
fmt(step) ==
    CASE step.kind = "New" -> fmt_call("new", step.id, << >>)
      [] step.kind = "Center" -> fmt_call("center", step.id, << >>)
      [] step.kind = "Forward" -> fmt_call("forward", step.id, step.args)
      [] step.kind = "Rotate" -> fmt_call("rotate", step.id, step.args)
      [] step.kind = "Color" -> fmt_call("color", step.id, step.args)
      [] step.kind = "Wipe" -> "wipe()"
      [] step.kind = "Remove" -> fmt_call("remove", step.id, << >>)
      [] step.kind = "Disable" -> fmt_call("disable", step.id, << >>)
      [] step.kind = "Enable" -> fmt_call("disable", step.id, << >>)
      [] step.kind = "Fill" -> fmt_call("fill", step.id, << >>)
      [] step.kind = "Rectangle" -> fmt_call("rectangle", step.id, step.args)
      [] step.kind = "Print" -> fmt_call("print", step.id, << >>)
      [] step.kind = "Loop" ->
            fmt_loop(step.args[1], [i \in 1 .. Len(step.body) |-> fmt(step.body[i])])
      [] step.kind = "SetAngle" -> fmt_call("set_angle", step.id, step.args)
      [] step.kind = "PointTo" -> fmt_call("point_to", step.id, step.args)

\* DemoStep::execute_lua_function
execute_lua_function(env, st, step, perm) == execute_code(env, st, to_string(step), perm)

-----------------------------------------------------------------------------
(* The UI handlers' effects (ui.rs), as functions of the state they read.   *)

\* self.drawers.clone_from(&current_drawer_canvas): Drawers derives Clone, so
\* this assigns a clone of the snapshot's handle to ManagerBehavior's own
\* field, which is rebuilt from the shared resource every frame; the shared
\* DashMap, which the Lua closures and the renderer hold, keeps its content.
clone_from(shared, source) == shared

\* Create Demo, after the script ran: the shared registry
canvas_after_demo(shared, source) == clone_from(EmptyMap, source)

\* Create Demo, the script succeeded: buffer.write().drain(..).collect()
drain(buf) == [demo_steps |-> buf, buffer |-> << >>]

\* the state is set to Playback whatever the first step returned
first_step_result_always_enters(r, st, demo_steps) ==
    [result |-> IF r.ok THEN "ok" ELSE "error",
     env |-> [r.env EXCEPT !.buffer = demo_steps], state |-> StatePlayback]

\* Playback button, after the first step ran with result r: on success the
\* state is set to Playback and the buffer to the demo's steps
first_step_result(r, st, demo_steps) ==
    IF r.ok
    THEN [result |-> "ok", env |-> [r.env EXCEPT !.buffer = demo_steps],
          state |-> StatePlayback]
    ELSE [result |-> "error", env |-> r.env, state |-> st]

\* Playback button: clear, run the first step, enter Playback on success
playback_button(env, st, demo_steps, perm) ==
    LET cleared == [env EXCEPT !.drawers = EmptyMap]
    IN  IF demo_steps = << >>
        THEN [result |-> "empty", env |-> cleared, state |-> StateNone]
        ELSE first_step_result(
                 execute_lua_function(cleared, st, Head(demo_steps), perm),
                 st, demo_steps)

\* Playback Manager window: locked_buffer[iter_idx] panics out of bounds
window_panics(st, idx, buf) == st = StatePlayback /\ idx >= Len(buf)

\* steps executed one after the other until one fails
RECURSIVE replay_steps(_, _, _, _)
rest_of_replay(r, st, rest, perm) ==
    IF r.ok THEN replay_steps(r.env, st, rest, perm) ELSE r

replay_steps(env, st, steps, perm) ==
    IF steps = << >> THEN Ok(env)
    ELSE rest_of_replay(execute_lua_function(env, st, Head(steps), perm),
                        st, Tail(steps), perm)

\* the steps the back button's loop `for idx in 0..desired_idx` executes
back_loop_steps(buf, desired_idx) == SubSeq(buf, 1, desired_idx)

\* Back button, after the loop ended with result r
back_result(r, idx) ==
    IF r.ok
    THEN [result |-> "ok", env |-> r.env, iter_idx |-> idx - 1]
    ELSE [result |-> "error", env |-> r.env, iter_idx |-> idx]

\* Back button, after `if desired_idx == 0 { first().unwrap().execute().unwrap() }`
\* gave first: an error there is a panic
back_loop(first, st, idx, buf, perm) ==
    IF ~first.ok
    THEN [result |-> "panic", env |-> first.env, iter_idx |-> idx]
    ELSE back_result(
             replay_steps(first.env, st, back_loop_steps(buf, idx - 1), perm), idx)

\* Back button
step_backward(env, st, idx, buf, perm) ==
    LET cleared == [env EXCEPT !.drawers = EmptyMap]
        desired_idx == idx - 1
    IN  back_loop(IF desired_idx = 0
                  THEN execute_lua_function(cleared, st, Head(buf), perm)
                  ELSE Ok(cleared),
                  st, idx, buf, perm)

\* the buffer and the state are reset, the cursor is kept
clear_keeps_cursor(buf, st, idx) ==
    [buffer |-> << >>, state |-> StateNone, iter_idx |-> idx]

\* DemoBuffer::clear
clear(buf, st, idx) ==
    [buffer |-> << >>, state |-> StateNone, iter_idx |-> 0]

\* the forward button is enabled
forward_enabled(idx, buf) == idx + 1 # Len(buf)

\* the step under the cursor is executed again
next_step_current(idx, buf) == buf[idx + 1]

\* the step the forward button executes: locked_buffer[iter_idx + 1]
next_step(idx, buf) == buf[(idx + 1) + 1]

\* the cursor advances whatever the step returned
forward_result_always_advances(r, idx) ==
    [result |-> IF r.ok THEN "ok" ELSE "error", env |-> r.env, iter_idx |-> idx + 1]

\* Forward button, after the step ran with result r
forward_result(r, idx) ==
    IF r.ok
    THEN [result |-> "ok", env |-> r.env, iter_idx |-> idx + 1]
    ELSE [result |-> "error", env |-> r.env, iter_idx |-> idx]

\* Forward button
step_forward(env, st, idx, buf, perm) ==
    forward_result(execute_lua_function(env, st, next_step(idx, buf), perm), idx)

-----------------------------------------------------------------------------
(* Inputs *)

Ids == {"a", "b"}

Perms == Orders(Ids)

\* the statements the scripts of Spec are made of
Commands ==
    { Call("new", "a", << >>),
      Call("forward", "a", <<1>>),
      Call("enable", "a", << >>),
      Call("disable", "a", << >>),
      Call("remove", "a", << >>),
      Call("set_drawer_angle", "a", <<180>>) }

\* the statements the scripts and callbacks of SpecCmd are made of: every
\* registered function that takes a drawer id on "a", wipe and print, and a
\* second drawer "b"
CmdCommands ==
    { Call("new", "a", << >>),
      Call("remove", "a", << >>),
      Call("center", "a", << >>),
      Call("color", "a", <<1, 0, 0, 1>>),
      Call("rotate", "a", <<90>>),
      Call("set_drawer_angle", "a", <<180>>),
      Call("forward", "a", <<1>>),
      Call("enable", "a", << >>),
      Call("disable", "a", << >>),
      Call("rectangle", "a", <<1, 2>>),
      Call("point_to", "a", <<0, 1>>),
      Call("fill", "a", << >>),
      Call("position", "a", << >>),
      Call("exists", "a", << >>),
      Call("wipe", "", << >>),
      Call("print", "m", << >>),
      Call("new", "b", << >>),
      Call("forward", "b", <<1>>) }

\* the demo Import Demo reads in SpecCmd
CmdImportedDemos == { << Step("New", "b", << >>), Step("Forward", "b", <<1>>) >> }

\* the polylines the registry holds in SpecFill, as the points the pen was
\* put down at; every crossing of their segments is a lattice point
FillPaths ==
    { << Vec2(0, 0) >>,
      << Vec2(0, 0), Vec2(0, 2), Vec2(2, 0), Vec2(0, 0) >>,
      << Vec2(0, 0), Vec2(3, 0), Vec2(0, 2), Vec2(0, 0) >>,
      << Vec2(0, 0), Vec2(0, 2), Vec2(2, 2), Vec2(2, 0), Vec2(0, 0) >>,
      << Vec2(0, 0), Vec2(3, 0), Vec2(3, 2), Vec2(0, 2), Vec2(0, 0) >>,
      << Vec2(0, 0), Vec2(0, 1), Vec2(0, 2), Vec2(2, 1), Vec2(0, 0), Vec2(0, 2) >>,
      << Vec2(0, 0), Vec2(0, 2), Vec2(3, 2), Vec2(2, 0), Vec2(0, 0), Vec2(1, 2) >>,
      << Vec2(0, 0), Vec2(0, 3), Vec2(2, 1), Vec2(2, 0), Vec2(0, 0), Vec2(1, 2) >> }

\* where the drawer stands when fill is called
FillPositions == {Vec2(x, y) : x \in 0..MaxX, y \in 0..MaxY}

\* the drawer after new, and then for each further point of the path:
\* disable, moves along the axes to the point, enable (which starts a strip
\* at the point); at the end disable and moves along the axes to probe
pen_lifted(path, probe) ==
    [enabled |-> FALSE,
     pos |-> probe,
     ang |-> 90,
     drawings |->
        [lines |-> [i \in 1..Len(path) |->
                       LineStrip(<< <<Vec3(path[i][1], path[i][2], 0), WHITE>> >>)],
         polygons |-> << >>],
     color |-> WHITE]

\* the demos Import Demo reads
ImportedDemos ==
    { << >>,
      << Step("New", "a", << >>) >>,
      << Step("Forward", "a", <<1>>) >>,
      << Step("New", "a", << >>), LoopStep(2, << Step("Forward", "a", <<1>>) >>) >> }

-----------------------------------------------------------------------------
(* The state machine *)

Env ==
    [drawers |-> drawers, buffer |-> buffer,
     draw_requests |-> draw_requests, output_list |-> output_list,
     toasts |-> toasts]

SetEnv(e) ==
    /\ drawers' = e.drawers
    /\ buffer' = e.buffer
    /\ draw_requests' = e.draw_requests
    /\ output_list' = e.output_list
    /\ toasts' = e.toasts

Idle == [kind |-> "idle", failed |-> FALSE, issued |-> << >>]

\* the handler that ran, the demo it was clicked on (0: none), its outcome
\* for a call: the error message and the values it returned
Returned(op, arg, result, error, value) ==
    [op |-> op, arg |-> arg, result |-> result, error |-> error, value |-> value]

HandledOn(op, arg, result) == Returned(op, arg, result, "", << >>)

Handled(op, result) == HandledOn(op, 0, result)

Init ==
    /\ drawers = EmptyMap
    /\ buffer = << >>
    /\ state = StateNone
    /\ iter_idx = 0
    /\ demos = << >>
    /\ draw_requests = << >>
    /\ output_list = << >>
    /\ toasts = << >>
    /\ set_len_buffer = SetLenBuffer_new(0)
    /\ session = Idle
    /\ current_drawer_canvas = EmptyMap
    /\ crashed = FALSE
    /\ calls = 0
    /\ straight = TRUE
    /\ last = Handled("init", "ok")

\* Create Demo clicked: snapshot, clear, set Record, start the script
CreateDemoBegin ==
    /\ ~crashed
    /\ session.kind = "idle"
    /\ Len(demos) < MaxDemos
    /\ current_drawer_canvas' = drawers
    /\ drawers' = EmptyMap
    /\ state' = StateRecord
    /\ session' = [kind |-> "record", failed |-> FALSE, issued |-> << >>]
    /\ last' = Handled("create_demo_begin", "ok")
    /\ UNCHANGED <<set_len_buffer, buffer, iter_idx, demos, draw_requests, output_list, toasts, crashed,
                   calls, straight>>

\* the effect of a call that returned r on the shared state and the script
Called(r, c) ==
    /\ SetEnv(r.env)
    /\ session' = [session EXCEPT !.failed = ~r.ok, !.issued = Append(@, c)]
    /\ last' = Returned("call", c, IF r.ok THEN "ok" ELSE "error", r.error, r.value)

\* the handler's result r is stored: the shared state, the buffer state
EnteredWith(r, i) ==
    /\ SetEnv(r.env)
    /\ state' = r.state
    /\ crashed' = window_panics(r.state, iter_idx, r.env.buffer)
    /\ last' = HandledOn("playback", i, r.result)

\* the handler's result r is stored: the shared state, the cursor
SteppedWith(op, r) ==
    /\ SetEnv(r.env)
    /\ iter_idx' = r.iter_idx
    /\ last' = Handled(op, r.result)

\* the running script calls a registered function
LuaCall(c, perm, max_calls) ==
    /\ ~crashed
    /\ session.kind # "idle"
    /\ ~session.failed
    /\ calls < max_calls
    /\ Called(call_global(Env, state, c, perm), c)
    /\ calls' = calls + 1
    /\ UNCHANGED <<set_len_buffer, state, iter_idx, demos, current_drawer_canvas, crashed, straight>>

\* Create Demo: the script finished
CreateDemoOk ==
    /\ ~crashed
    /\ session.kind = "record"
    /\ ~session.failed
    /\ demos' = Append(demos, DemoInstance(session.issued, drain(buffer).demo_steps, "recorded"))
    /\ buffer' = drain(buffer).buffer
    /\ state' = StateNone
    /\ drawers' = canvas_after_demo(drawers, current_drawer_canvas)
    /\ current_drawer_canvas' = EmptyMap
    /\ session' = Idle
    /\ last' = Handled("create_demo", "ok")
    /\ UNCHANGED <<set_len_buffer, iter_idx, draw_requests, output_list, toasts, crashed, calls, straight>>

\* Create Demo: the script failed
CreateDemoErr ==
    /\ ~crashed
    /\ session.kind = "record"
    /\ session.failed
    /\ state' = StateNone
    /\ drawers' = canvas_after_demo(drawers, current_drawer_canvas)
    /\ current_drawer_canvas' = EmptyMap
    /\ session' = Idle
    /\ last' = Handled("create_demo", "error")
    /\ UNCHANGED <<set_len_buffer, buffer, iter_idx, demos, draw_requests, output_list, toasts, crashed,
                   calls, straight>>

\* Run clicked: enabled only in state None
RunScriptBegin ==
    /\ ~crashed
    /\ session.kind = "idle"
    /\ state = StateNone
    /\ session' = [kind |-> "run", failed |-> FALSE, issued |-> << >>]
    /\ last' = Handled("run_begin", "ok")
    /\ UNCHANGED <<set_len_buffer, drawers, buffer, state, iter_idx, demos, draw_requests, output_list, toasts,
                   current_drawer_canvas, crashed, calls, straight>>

\* Run: the script finished or failed
RunScriptEnd ==
    /\ ~crashed
    /\ session.kind = "run"
    /\ session' = Idle
    /\ last' = Handled("run", IF session.failed THEN "error" ELSE "ok")
    /\ UNCHANGED <<set_len_buffer, drawers, buffer, state, iter_idx, demos, draw_requests, output_list, toasts,
                   current_drawer_canvas, crashed, calls, straight>>

\* Import Demo
ImportDemo(steps) ==
    /\ ~crashed
    /\ session.kind = "idle"
    /\ Len(demos) < MaxDemos
    /\ demos' = Append(demos, DemoInstance(<< >>, steps, "imported"))
    /\ last' = Handled("import", "ok")
    /\ UNCHANGED <<set_len_buffer, drawers, buffer, state, iter_idx, draw_requests, output_list, toasts, session,
                   current_drawer_canvas, crashed, calls, straight>>

\* Playback clicked on demo i: enabled only in state None; the Playback
\* Manager window is drawn later in the same frame
Playback(i, perm) ==
    /\ ~crashed
    /\ session.kind = "idle"
    /\ state = StateNone
    /\ i \in 1..Len(demos)
    /\ EnteredWith(playback_button(Env, state, demos[i].demo_steps, perm), i)
    /\ straight' = (iter_idx = 0)
    /\ UNCHANGED <<set_len_buffer, iter_idx, demos, session, current_drawer_canvas, calls>>

\* Back button of the Playback Manager
StepBackward(perm) ==
    /\ ~crashed
    /\ session.kind = "idle"
    /\ state = StatePlayback
    /\ iter_idx # 0
    /\ SteppedWith("step_backward", step_backward(Env, state, iter_idx, buffer, perm))
    /\ crashed' = (last'.result = "panic")
    /\ straight' = FALSE
    /\ UNCHANGED <<set_len_buffer, state, demos, session, current_drawer_canvas, calls>>

\* Forward button of the Playback Manager
StepForward(perm) ==
    /\ ~crashed
    /\ session.kind = "idle"
    /\ state = StatePlayback
    /\ forward_enabled(iter_idx, buffer)
    /\ SteppedWith("step_forward", step_forward(Env, state, iter_idx, buffer, perm))
    /\ UNCHANGED <<set_len_buffer, state, demos, session, current_drawer_canvas, crashed, calls,
                   straight>>

\* the Playback Manager window is closed: drawers.clear(), demo_buffer.clear()
ClosePlayback ==
    /\ ~crashed
    /\ session.kind = "idle"
    /\ state = StatePlayback
    /\ drawers' = EmptyMap
    /\ buffer' = clear(buffer, state, iter_idx).buffer
    /\ state' = clear(buffer, state, iter_idx).state
    /\ iter_idx' = clear(buffer, state, iter_idx).iter_idx
    /\ last' = Handled("close", "ok")
    /\ UNCHANGED <<set_len_buffer, demos, draw_requests, output_list, toasts, session, current_drawer_canvas,
                   crashed, calls, straight>>

\* the effect of a call that returned r to a callback on the shared state
CalledBack(r, c) ==
    /\ SetEnv(r.env)
    /\ last' = Returned("callback", c, IF r.ok THEN "ok" ELSE "error", r.error, r.value)

\* a frame starts while the window has the focus: the on_input callback of a
\* running script is invoked, and calls c; scripts run inside click handlers,
\* so no script is running when a frame starts
OnInput(c, perm, max_calls) ==
    /\ ~crashed
    /\ session.kind = "idle"
    /\ calls < max_calls
    /\ CalledBack(call_global(Env, state, c, perm), c)
    /\ calls' = calls + 1
    /\ UNCHANGED <<set_len_buffer, state, iter_idx, demos, session, current_drawer_canvas, crashed,
                   straight>>

Next ==
    \/ CreateDemoBegin
    \/ \E c \in Commands, perm \in Perms : LuaCall(c, perm, MaxCalls)
    \/ CreateDemoOk
    \/ CreateDemoErr
    \/ RunScriptBegin
    \/ RunScriptEnd
    \/ \E steps \in ImportedDemos : ImportDemo(steps)
    \/ \E i \in 1..MaxDemos, perm \in Perms : Playback(i, perm)
    \/ \E perm \in Perms : StepBackward(perm)
    \/ \E perm \in Perms : StepForward(perm)
    \/ ClosePlayback

Spec == Init /\ [][Next]_vars

\* the draw system: one request is received per frame, and its polygon is
\* added to the drawer that asked for it, if that drawer is still there
\* a draw system that takes the request sent last
draw_takes_newest(map, requests) ==
    LET request == requests[Len(requests)]
    IN  IF contains_key(map, request.id)
        THEN [map EXCEPT ![request.id].drawings.polygons =
                 Append(@, FilledPolygonPoints(request.points, request.color))]
        ELSE map

\* the polygon of the oldest request is pushed onto every drawer
draw_onto_every_drawer(map, requests) ==
    LET request == Head(requests)
    IN  [k \in DOMAIN map |->
            [map[k] EXCEPT !.drawings.polygons =
                Append(@, FilledPolygonPoints(request.points, request.color))]]

draw(map, requests) ==
    LET request == Head(requests)
    IN  IF contains_key(map, request.id)
        THEN [map EXCEPT ![request.id].drawings.polygons =
                 Append(@, FilledPolygonPoints(request.points, request.color))]
        ELSE map

Draw ==
    /\ ~crashed
    /\ draw_requests # << >>
    /\ drawers' = draw(drawers, draw_requests)
    /\ draw_requests' = Tail(draw_requests)
    /\ last' = Handled("draw", "ok")
    /\ UNCHANGED <<set_len_buffer, buffer, state, iter_idx, demos, output_list, toasts, session,
                   current_drawer_canvas, crashed, calls, straight>>

\* fill on a registry that holds one drawer, its pen lifted between the
\* points of a polyline
InitFill ==
    /\ \E path \in FillPaths, probe \in FillPositions :
           drawers = [id \in {"a"} |-> pen_lifted(path, probe)]
    /\ buffer = << >>
    /\ state = StateNone
    /\ iter_idx = 0
    /\ demos = << >>
    /\ draw_requests = << >>
    /\ output_list = << >>
    /\ toasts = << >>
    /\ set_len_buffer = SetLenBuffer_new(0)
    /\ session = Idle
    /\ current_drawer_canvas = EmptyMap
    /\ crashed = FALSE
    /\ calls = 0
    /\ straight = TRUE
    /\ last = Handled("init", "ok")

\* the calls made in SpecFill: fill, and the functions that change the
\* geometry the draw system adds polygons to
FillCommands ==
    { Call("fill", "a", << >>),
      Call("wipe", "", << >>),
      Call("enable", "a", << >>),
      Call("disable", "a", << >>),
      Call("forward", "a", <<1>>),
      Call("center", "a", << >>),
      Call("rotate", "a", <<90>>),
      Call("rectangle", "a", <<1, 2>>),
      Call("new", "b", << >>),
      Call("remove", "a", << >>),
      Call("color", "a", <<1, 0, 0, 1>>) }

NextFill ==
    \/ \E c \in FillCommands, perm \in Perms : OnInput(c, perm, MaxFillCalls)
    \/ Draw

SpecFill == InitFill /\ [][NextFill]_vars

\* SpecFill with the frames that keep running: the draw system is in the
\* Update schedule and runs in every frame
SpecFillFair == InitFill /\ [][NextFill]_vars /\ WF_vars(Draw)

\* fill called by a recording script and by a callback, over a registry that
\* holds a drawing when Create Demo is clicked
RecCommands ==
    { Call("fill", "a", << >>),
      Call("new", "a", << >>),
      Call("new", "b", << >>),
      Call("forward", "a", <<1>>) }

\* the draw system runs between frames, never inside a click handler
DrawIdle == session.kind = "idle" /\ Draw

NextRec ==
    \/ CreateDemoBegin
    \/ \E c \in RecCommands, perm \in Perms : LuaCall(c, perm, MaxFillCalls)
    \/ CreateDemoOk
    \/ CreateDemoErr
    \/ \E c \in RecCommands, perm \in Perms : OnInput(c, perm, MaxFillCalls)
    \/ DrawIdle

SpecRec == InitFill /\ [][NextRec]_vars

Last(s) == s[Len(s)]

\* three drawers, each holding one side of the triangle (0,0), (3,0), (0,3)
TriIds == {"a", "b", "c"}

TriPerms == Orders(TriIds)

TriVertices == << Vec2(0, 0), Vec2(3, 0), Vec2(0, 3) >>

\* the centroid of the triangle, and a position far outside it
TriCentroid == Vec2(1, 1)

TriOutside == Vec2(9, 9)

\* the points of the drawer that holds side n of the triangle, drawn from its
\* first or from its second vertex: the point at the origin that new gives
\* every drawer, and then the two ends of the side (the first vertex of the
\* triangle is the origin itself)
TriSide(n, reversed) ==
    LET from == TriVertices[n]
        to == TriVertices[(n % 3) + 1]
        side == IF reversed THEN <<to, from>> ELSE <<from, to>>
    IN  IF side[1] = Vec2(0, 0) THEN side ELSE <<Vec2(0, 0)>> \o side

\* each drawer went with its pen lifted to one end of its side and put the
\* pen down there and at the other end; the drawer that calls fill then
\* lifted the pen and went to probe, the others stayed at the end of their
\* side
InitTri ==
    /\ \E reversed \in [1..3 -> BOOLEAN], caller \in TriIds,
          probe \in {TriCentroid, TriOutside} :
           drawers =
              [id \in TriIds |->
                 LET n == CASE id = "a" -> 1 [] id = "b" -> 2 [] id = "c" -> 3
                     side == TriSide(n, reversed[n])
                 IN  pen_lifted(side, IF id = caller THEN probe ELSE Last(side))]
    /\ buffer = << >>
    /\ state = StateNone
    /\ iter_idx = 0
    /\ demos = << >>
    /\ draw_requests = << >>
    /\ output_list = << >>
    /\ toasts = << >>
    /\ set_len_buffer = SetLenBuffer_new(0)
    /\ session = Idle
    /\ current_drawer_canvas = EmptyMap
    /\ crashed = FALSE
    /\ calls = 0
    /\ straight = TRUE
    /\ last = Handled("init", "ok")

NextTri ==
    \/ \E id \in TriIds, perm \in TriPerms :
          OnInput(Call("fill", id, << >>), perm, MaxTriCalls)
    \/ Draw

SpecTri == InitTri /\ [][NextTri]_vars

\* the command surface: every registered function, called in every buffer
\* state
\* Playback and the forward button, while the output list is short: a
\* replayed print adds a line to it every time
PlaybackCmd(i, perm) == Len(output_list) < MaxOutput /\ Playback(i, perm)

StepForwardCmd(perm) == Len(output_list) < MaxOutput /\ StepForward(perm)

NextCmd ==
    \/ CreateDemoBegin
    \/ \E c \in CmdCommands, perm \in Perms : LuaCall(c, perm, MaxCmdCalls)
    \/ CreateDemoOk
    \/ CreateDemoErr
    \/ \E c \in CmdCommands, perm \in Perms : OnInput(c, perm, MaxCmdCalls)
    \/ \E steps \in CmdImportedDemos : ImportDemo(steps)
    \/ \E i \in 1..MaxDemos, perm \in Perms : PlaybackCmd(i, perm)
    \/ \E perm \in Perms : StepForwardCmd(perm)
    \/ ClosePlayback

SpecCmd == Init /\ [][NextCmd]_vars

\* the calls made in SpecQuery: the functions that only read the registry,
\* notification, and the functions that change what they read
QueryCommands ==
    { Call("notification", "m", <<1>>),
      Call("notification", "m", <<7>>),
      Call("exists", "a", << >>),
      Call("drawers", "", << >>),
      Call("position", "a", << >>),
      Call("new", "a", << >>),
      Call("new", "b", << >>),
      Call("forward", "a", <<1>>),
      Call("remove", "a", << >>) }

\* scripts that record, callbacks of running scripts, and Playback: the three
\* buffer states in which a function can be called
NextQuery ==
    \/ CreateDemoBegin
    \/ \E c \in QueryCommands, perm \in Perms : LuaCall(c, perm, MaxQueryCalls)
    \/ CreateDemoOk
    \/ CreateDemoErr
    \/ \E c \in QueryCommands, perm \in Perms : OnInput(c, perm, MaxQueryCalls)
    \/ \E i \in 1..MaxDemos, perm \in Perms : Playback(i, perm)
    \/ ClosePlayback

SpecQuery == Init /\ [][NextQuery]_vars

\* the items pushed in SpecBuf
BufItems == {"x", "y", "z"}

\* SetLenBuffer::new(buffer_length)
InitBuf ==
    /\ \E buffer_length \in 0 .. MaxBufLen :
           set_len_buffer = SetLenBuffer_new(buffer_length)
    /\ drawers = EmptyMap
    /\ buffer = << >>
    /\ state = StateNone
    /\ iter_idx = 0
    /\ demos = << >>
    /\ draw_requests = << >>
    /\ output_list = << >>
    /\ toasts = << >>
    /\ session = Idle
    /\ current_drawer_canvas = EmptyMap
    /\ crashed = FALSE
    /\ calls = 0
    /\ straight = TRUE
    /\ last = Handled("init", "ok")

Idles ==
    UNCHANGED <<drawers, buffer, state, iter_idx, demos, draw_requests, output_list,
                toasts, session, current_drawer_canvas, crashed, calls, straight>>

Push(item) ==
    /\ set_len_buffer' = push(set_len_buffer, item)
    /\ last' = HandledOn("push", item, "ok")
    /\ Idles

SetLen(len) ==
    /\ set_len_buffer' = set_len(set_len_buffer, len)
    /\ last' = HandledOn("set_len", len, "ok")
    /\ Idles

NextBuf ==
    \/ \E item \in BufItems : Push(item)
    \/ \E len \in 0 .. MaxBufLen : SetLen(len)

SpecBuf == InitBuf /\ [][NextBuf]_vars

\* the headings SpecRot starts from, set by set_drawer_angle
RotHeadings == {0, 45, 90, 180, 270, 359}

\* the amounts of SpecRot: quarter and full turns and 2^25, each both ways
RotAmounts == {90, 360, 33554432}

RotCommands ==
    {Call("rotate", "a", <<t>>) : t \in RotAmounts}
    \cup {Call("rotate", "a", <<0 - t>>) : t \in RotAmounts}

\* new("a") and set_drawer_angle("a", heading) have been called
InitRot ==
    /\ \E heading \in RotHeadings :
           drawers = [id \in {"a"} |-> [DrawerDefault EXCEPT !.ang = heading]]
    /\ buffer = << >>
    /\ state = StateNone
    /\ iter_idx = 0
    /\ demos = << >>
    /\ draw_requests = << >>
    /\ output_list = << >>
    /\ toasts = << >>
    /\ set_len_buffer = SetLenBuffer_new(0)
    /\ session = Idle
    /\ current_drawer_canvas = EmptyMap
    /\ crashed = FALSE
    /\ calls = 0
    /\ straight = TRUE
    /\ last = Handled("init", "ok")

NextRot == \E c \in RotCommands, perm \in Perms : OnInput(c, perm, MaxRotCalls)

SpecRot == InitRot /\ [][NextRot]_vars

\* the steps a loop of SpecFmt repeats
FmtInner ==
    { Step("Forward", "id", <<10>>),
      Step("Rotate", "a", <<90>>),
      Step("New", "a", << >>),
      Step("Wipe", "", << >>) }

\* the steps rendered in SpecFmt: loops of up to two steps, and a loop in a
\* loop
FmtSteps ==
    FmtInner
    \cup {LoopStep(count, << >>) : count \in 0 .. MaxLoopCount}
    \cup {LoopStep(count, <<x>>) : count \in 0 .. MaxLoopCount, x \in FmtInner}
    \cup {LoopStep(count, <<x, y>>) :
              count \in 0 .. MaxLoopCount, x \in FmtInner, y \in FmtInner}
    \cup {LoopStep(count, <<LoopStep(2, <<x>>)>>) :
              count \in 0 .. MaxLoopCount, x \in FmtInner}

\* a demo of one step has been imported
InitFmt ==
    /\ \E step \in FmtSteps : demos = << DemoInstance(<< >>, <<step>>, "imported") >>
    /\ drawers = EmptyMap
    /\ buffer = << >>
    /\ state = StateNone
    /\ iter_idx = 0
    /\ draw_requests = << >>
    /\ output_list = << >>
    /\ toasts = << >>
    /\ set_len_buffer = SetLenBuffer_new(0)
    /\ session = Idle
    /\ current_drawer_canvas = EmptyMap
    /\ crashed = FALSE
    /\ calls = 0
    /\ straight = TRUE
    /\ last = Handled("init", "ok")

\* step.to_string()
Display(step) ==
    /\ last' = Returned("to_string", step, "ok", "", <<fmt(step)>>)
    /\ UNCHANGED <<drawers, buffer, state, iter_idx, demos, draw_requests, output_list,
                   toasts, set_len_buffer, session, current_drawer_canvas, crashed,
                   calls, straight>>

NextFmt == \E i \in 1 .. Len(demos[1].demo_steps) : Display(demos[1].demo_steps[i])

SpecFmt == InitFmt /\ [][NextFmt]_vars

\* the calls of the recording scripts of SpecNaN: every function that takes
\* numbers, with NaN and with finite arguments
NaNCommands ==
    { Call("new", "a", << >>),
      Call("forward", "a", <<NaN>>),
      Call("forward", "a", <<1>>),
      Call("rotate", "a", <<NaN>>),
      Call("set_drawer_angle", "a", <<NaN>>),
      Call("color", "a", <<NaN, 0, NaN, 1>>),
      Call("rectangle", "a", <<NaN, 2>>),
      Call("point_to", "a", <<NaN, NaN>>) }

\* Create Demo on scripts that pass NaN
NextNaN ==
    \/ CreateDemoBegin
    \/ \E c \in NaNCommands, perm \in Perms : LuaCall(c, perm, MaxNaNCalls)
    \/ CreateDemoOk
    \/ CreateDemoErr

SpecNaN == Init /\ [][NextNaN]_vars

-----------------------------------------------------------------------------
(* Reference runs of a script, for the properties below *)

InitEnv ==
    [drawers |-> EmptyMap, buffer |-> << >>, draw_requests |-> << >>,
     output_list |-> << >>, toasts |-> << >>]

\* Run: the script executed once, live, from a cleared registry
LiveRun(script, perm) == execute_block(InitEnv, StateNone, script, perm)

\* Create Demo: the script executed in state Record with an empty step buffer;
\* the buffer of the result is what the session itself intercepts
RecordRun(script, perm) == execute_block(InitEnv, StateRecord, script, perm)

\* the recording session that was running has ended in this step
SessionEnds == session.kind = "record" /\ session'.kind = "idle"

-----------------------------------------------------------------------------
(* Properties *)

\* the commands other than `new` and the pure reads
InterceptedFunctions ==
    {"remove", "center", "color", "rotate", "set_drawer_angle", "forward", "enable",
     "disable", "rectangle", "point_to", "wipe", "fill", "print"}

\* C1: a call of remove, center, color, rotate, set-heading, forward, enable,
\* disable, rectangle, point_to, wipe, fill or print issued while the buffer
\* state is Record leaves the registry as it was, and, when it succeeds, the
\* step buffer is the old one with exactly one entry appended.
C1_RecordingInvariant ==
    [][ ( /\ state = StateRecord
          /\ last'.op = "call"
          /\ Len(session'.issued) = Len(session.issued) + 1
          /\ Last(session'.issued).fn \in InterceptedFunctions )
        => /\ drawers' = drawers
           /\ last'.result = "ok"
                => /\ Len(buffer') = Len(buffer) + 1
                   /\ SubSeq(buffer', 1, Len(buffer)) = buffer ]_vars

\* C2: when a demo that holds exactly the steps recorded from its script has
\* been entered at cursor 0 and stepped forward, without error, to its
\* last step, the registry is the one a live run of the script from a cleared
\* registry produces.
C2_RoundTrip ==
    \A i \in 1..Len(demos), perm \in Perms :
        ( /\ state = StatePlayback
          /\ ~crashed
          /\ straight
          /\ last.op \in {"playback", "step_forward"}
          /\ last.result = "ok"
          /\ demos[i].origin = "recorded"
          /\ demos[i].demo_steps = RecordRun(demos[i].name, perm).env.buffer
          /\ buffer = demos[i].demo_steps
          /\ iter_idx = Len(buffer) - 1 )
        => drawers = LiveRun(demos[i].name, perm).env.drawers

\* C3: when a Create Demo session ends, with or without error, the shared
\* registry is the registry of the moment the session started.
C3_RecordingSideEffectFree ==
    [][ SessionEnds => drawers' = current_drawer_canvas ]_vars

\* C4: when a Create Demo session ends with an error, the step buffer is
\* empty afterwards and the demo list is unchanged.
C4_FailedRecordingDiscarded ==
    [][ (SessionEnds /\ session.failed) => (buffer' = << >> /\ demos' = demos) ]_vars

\* C5: the step buffer is empty when a recording session starts, and every
\* recorded demo holds exactly the steps its own session intercepted, in call
\* order.
C5_BufferEmptyAtRecordStart ==
    /\ (session.kind = "record" /\ session.issued = << >>) => buffer = << >>
    /\ \A i \in 1..Len(demos), perm \in Perms :
           demos[i].origin = "recorded"
             => demos[i].demo_steps = RecordRun(demos[i].name, perm).env.buffer

\* C6: the buffer state becomes Record only from None, and becomes Playback
\* only from None.
C6_RecordPlaybackExclusive ==
    [][ /\ (state' = StateRecord /\ state # StateRecord) => state = StateNone
        /\ (state' = StatePlayback /\ state # StatePlayback) => state = StateNone ]_vars

Cleared == [Env EXCEPT !.drawers = EmptyMap]

\* C7: right after a demo was entered for playback, the cursor is 0 and the
\* registry is the result of step 0 executed on a cleared registry.
C7_PlaybackEntry ==
    (last.op = "playback" /\ last.result = "ok")
      => /\ state = StatePlayback
         /\ iter_idx = 0
         /\ \E perm \in Perms :
               drawers = execute_lua_function(Cleared, StateNone, buffer[1], perm).env.drawers

\* the first step of demo i fails on a cleared registry
FirstStepFails(i) ==
    /\ demos[i].demo_steps # << >>
    /\ \A perm \in Perms :
          ~execute_lua_function(Cleared, state, demos[i].demo_steps[1], perm).ok

\* C8: when Playback is clicked on a demo whose step 0 fails, the state is
\* None afterwards, and the step buffer and the cursor are what they were
\* (the cursor stays 0 if it was 0); when the demo has no steps, the state is
\* None afterwards.
C8_FailedEntryAborts ==
    [][ \A i \in 1..Len(demos) :
          (last'.op = "playback" /\ last'.arg = i)
            => /\ FirstStepFails(i)
                    => /\ state' = StateNone
                       /\ buffer' = buffer
                       /\ iter_idx' = iter_idx
               /\ demos[i].demo_steps = << >> => state' = StateNone ]_vars

\* a demo whose step 0 fails was clicked with the cursor at 0, and nothing
\* was entered
C8_Witness ==
    /\ last.op = "playback"
    /\ last.result = "error"
    /\ state = StateNone
    /\ iter_idx = 0
    /\ drawers = EmptyMap

\* the forward button's effect when the step it runs returns r
ForwardDone(r) ==
    /\ drawers' = r.env.drawers
    /\ buffer' = buffer
    /\ r.ok => iter_idx' = iter_idx + 1
    /\ ~r.ok => iter_idx' = iter_idx

\* C9: a step forward happens only at a cursor c with c+1 < number of steps;
\* it executes step c+1 once on the registry as it is, and on success the
\* cursor is c+1 (on error it stays c).
C9_StepForward ==
    [][ last'.op = "step_forward"
          => /\ state = StatePlayback
             /\ iter_idx + 1 < Len(buffer)
             /\ \E perm \in Perms :
                   ForwardDone(execute_lua_function(Env, state, buffer[iter_idx + 2], perm)) ]_vars

\* a step forward succeeded and moved the cursor to the last step
C9_Witness ==
    /\ last.op = "step_forward"
    /\ last.result = "ok"
    /\ iter_idx = 1
    /\ Len(buffer) = 2
    /\ "a" \in DOMAIN drawers

\* the back button's effect when steps 0..c-1 replayed on a cleared registry
\* return r
BackwardDone(r) ==
    r.ok => (drawers' = r.env.drawers /\ iter_idx' = iter_idx - 1)

\* C10: a step backward at cursor c > 0 leaves the registry that steps 0 to
\* c-1 inclusive produce on a cleared registry, and the cursor at c-1.
C10_StepBackward ==
    [][ last'.op = "step_backward"
          => /\ iter_idx > 0
             /\ \E perm \in Perms :
                   BackwardDone(replay_steps(Cleared, state, SubSeq(buffer, 1, iter_idx), perm)) ]_vars

C12_CloseExitsPlayback ==
    last.op = "close"
      => /\ state = StateNone
         /\ drawers = EmptyMap
         /\ buffer = << >>
         /\ iter_idx = 0

\* the playback view of a demo was closed
C12_Witness ==
    /\ last.op = "close"
    /\ state = StateNone
    /\ demos # << >>
    /\ session = Idle

\* C13: the step that a command logs while recording renders as a call of
\* that same command with the same arguments.
C13_RenderingRepeatsCommand ==
    [][ ( /\ state = StateRecord
          /\ last'.op = "call"
          /\ last'.result = "ok"
          /\ Len(buffer') = Len(buffer) + 1
          /\ Last(buffer').kind # "Loop" )
        => to_string(Last(buffer')) = Last(session'.issued) ]_vars

\* the variant that belongs to each command
VariantOf(fn) ==
    CASE fn = "forward" -> "Forward"
      [] fn = "rotate" -> "Rotate"
      [] fn = "set_drawer_angle" -> "SetAngle"
      [] fn = "color" -> "Color"
      [] fn = "rectangle" -> "Rectangle"
      [] fn = "point_to" -> "PointTo"
      [] fn = "enable" -> "Enable"
      [] fn = "disable" -> "Disable"
      [] fn = "center" -> "Center"
      [] fn = "fill" -> "Fill"
      [] fn = "wipe" -> "Wipe"
      [] fn = "print" -> "Print"
      [] fn = "remove" -> "Remove"
      [] fn = "new" -> "New"

\* C14: a call of forward, rotate, set-heading, color, rectangle, point_to,
\* enable, disable, center, fill, wipe, print, remove or new that succeeds
\* while the buffer state is Record appends to the step buffer the variant of
\* that command with exactly the arguments of the call.
C14_RecordedVariant ==
    [][ ( /\ state = StateRecord
          /\ last'.op = "call"
          /\ last'.result = "ok"
          /\ last'.arg.fn \in InterceptedFunctions \cup {"new"} )
        => buffer' = Append(buffer,
                            Step(VariantOf(last'.arg.fn), last'.arg.id, last'.arg.args)) ]_vars

\* a registered function was called, by a script or by a callback
CallDone == last'.op \in {"call", "callback"}

\* the default drawer, field by field: enabled, at the origin,
\* heading 90 degrees, white, one strip holding the origin point, no polygons
FreshDrawer ==
    [enabled |-> TRUE,
     pos |-> <<0, 0>>,
     ang |-> 90,
     color |-> [space |-> "Srgba", rgba |-> <<1, 1, 1, 1>>],
     drawings |->
        [lines |-> << << << <<0, 0, 0>>, [space |-> "Srgba", rgba |-> <<1, 1, 1, 1>>] >> >> >>,
         polygons |-> << >>]]

\* the registry with the fresh drawer added under id
WithFresh(map, id) ==
    [k \in DOMAIN map \cup {id} |-> IF k = id THEN FreshDrawer ELSE map[k]]

\* C15: new(id) on an id that is in the registry fails with the already-exists
\* error and leaves the registry and the step buffer as they were, in every
\* buffer state; new(id) on an absent id succeeds and adds the default drawer
\* under id.
C15_NewDrawer ==
    [][ (CallDone /\ last'.arg.fn = "new")
        => IF last'.arg.id \in DOMAIN drawers
           THEN /\ last'.result = "error"
                /\ last'.error = "already exists"
                /\ drawers' = drawers
                /\ buffer' = buffer
           ELSE /\ last'.result = "ok"
                /\ drawers' = WithFresh(drawers, last'.arg.id) ]_vars

\* new("a") failed while recording, after the recording had created "a"
C15_Witness ==
    /\ last.op = "call"
    /\ last.arg.fn = "new"
    /\ last.result = "error"
    /\ state = StateRecord
    /\ drawers = WithFresh(EmptyMap, "a")
    /\ buffer = << Step("New", "a", << >>) >>

\* the calls issued so far created id and did not remove it afterwards
CreatedBy(issued, id) ==
    \E i \in 1..Len(issued) :
        /\ issued[i].fn = "new"
        /\ issued[i].id = id
        /\ \A j \in (i + 1)..Len(issued) : ~(issued[j].fn = "remove" /\ issued[j].id = id)

\* the functions that take a drawer id, other than new and exists
IdFunctions ==
    {"remove", "center", "color", "rotate", "set_drawer_angle", "forward", "enable",
     "disable", "rectangle", "point_to", "fill", "position"}

\* C16: while the buffer state is Record, new(id) on an absent id appends a
\* New step and inserts the drawer; a later call on that id in the same
\* recording succeeds, and exists(id) returns true.
C16_NewWhileRecording ==
    [][ (state = StateRecord /\ last'.op = "call")
        => /\ (last'.arg.fn = "new" /\ last'.arg.id \notin DOMAIN drawers)
                => /\ buffer' = Append(buffer, Step("New", last'.arg.id, << >>))
                   /\ last'.arg.id \in DOMAIN drawers'
           /\ CreatedBy(session.issued, last'.arg.id)
                => /\ last'.arg.fn \in IdFunctions => last'.result = "ok"
                   /\ last'.arg.fn = "exists" => last'.value = <<TRUE>> ]_vars

\* a recording created "a" and then asked whether it exists
C16_Witness ==
    /\ state = StateRecord
    /\ session.issued = << Call("new", "a", << >>), Call("exists", "a", << >>) >>
    /\ last.value = <<TRUE>>
    /\ buffer = << Step("New", "a", << >>) >>

\* the shared state after the step
EnvAfter ==
    [drawers |-> drawers', buffer |-> buffer',
     draw_requests |-> draw_requests', output_list |-> output_list',
     toasts |-> toasts']

\* C17: remove(id) on an id that is not in the registry fails with the
\* not-found error and changes nothing; after a remove(id) that succeeded
\* outside a recording, id is not in the registry, exists(id) returns false
\* and every other drawer is as it was.
C17_Remove ==
    [][ (CallDone /\ last'.arg.fn = "remove")
        => IF last'.arg.id \notin DOMAIN drawers
           THEN /\ last'.result = "error"
                /\ last'.error = "doesn't exist"
                /\ EnvAfter = Env
           ELSE state # StateRecord
                  => /\ last'.result = "ok"
                     /\ exists(EnvAfter, state', last'.arg.id).value = <<FALSE>>
                     /\ DOMAIN drawers' = DOMAIN drawers \ {last'.arg.id}
                     /\ \A k \in DOMAIN drawers' : drawers'[k] = drawers[k] ]_vars

\* remove("a") succeeded in state None, and "a" is gone
C17_Witness ==
    /\ last.op = "callback"
    /\ last.arg = Call("remove", "a", << >>)
    /\ last.result = "ok"
    /\ state = StateNone
    /\ "a" \notin DOMAIN drawers
    /\ calls = 2

\* C18: a call of remove, center, color, rotate, set-heading, forward,
\* enable, disable, rectangle, point_to, fill or position with an id that is
\* not in the registry returns the not-found error and leaves the registry,
\* the step buffer and the fill-request channel as they were, in every
\* buffer state.
C18_AbsentDrawer ==
    [][ ( /\ CallDone
          /\ last'.arg.fn \in IdFunctions
          /\ last'.arg.id \notin DOMAIN drawers )
        => /\ last'.result = "error"
           /\ last'.error = "doesn't exist"
           /\ drawers' = drawers
           /\ buffer' = buffer
           /\ draw_requests' = draw_requests ]_vars

\* a recording called rotate on "a", which it had not created, while another
\* drawer was there
C18_Witness ==
    /\ state = StateRecord
    /\ last.op = "call"
    /\ last.arg = Call("rotate", "a", <<90>>)
    /\ last.error = "doesn't exist"
    /\ DOMAIN drawers = {"b"}

\* C19: one call of fill adds at most one request to the render channel.
C19_AtMostOneRequest ==
    [][ (CallDone /\ last'.arg.fn = "fill")
        => Len(draw_requests') <= Len(draw_requests) + 1 ]_vars

\* the segments fill scans, in the registry's iteration order
ScannedLines(perm) == windows2(flatten_drawers(drawers, key_order(drawers, perm)))

\* segment idx crosses checked segment k, which the scan does not skip, and
\* the candidate polygon of the crossing contains the position p
ContainedCandidate(lines, idx, k, p) ==
    /\ k < idx
    /\ k # idx - 1
    /\ idx - 1 > 2
    /\ intersects(lines[idx], lines[k]) # << >>
    /\ hull_contains(polygon_points(lines, idx, k, intersects(lines[idx], lines[k])[1]), p)

\* C20: the scan of fill does not give up a segment at a crossing whose
\* candidate polygon does not contain the drawer's position: when some
\* segment has a crossing with a checked segment whose candidate polygon
\* contains the position, fill sends a request.
C20_ScanGoesOn ==
    [][ ( /\ CallDone
          /\ last'.arg.fn = "fill"
          /\ last'.arg.id \in DOMAIN drawers
          /\ state # StateRecord )
        => \A perm \in Perms :
              LET lines == ScannedLines(perm)
              IN  (\E idx \in 1..Len(lines), k \in 1..Len(lines) :
                      ContainedCandidate(lines, idx, k, drawers[last'.arg.id].pos))
                    => draw_requests' # draw_requests ]_vars

\* C21: fill on a drawer that is in the registry, outside a recording,
\* returns success; when no crossing of a segment with a checked segment has
\* a candidate polygon that contains the drawer's position (there are fewer
\* than two points, or no crossing, or no containing polygon), it sends no
\* request.
C21_FillNeverFails ==
    [][ ( /\ CallDone
          /\ last'.arg.fn = "fill"
          /\ last'.arg.id \in DOMAIN drawers
          /\ state # StateRecord )
        => /\ last'.result = "ok"
           /\ (\A perm \in Perms :
                  \A idx \in 1..Len(ScannedLines(perm)), k \in 1..Len(ScannedLines(perm)) :
                     ~ContainedCandidate(ScannedLines(perm), idx, k,
                                         drawers[last'.arg.id].pos))
                => draw_requests' = draw_requests ]_vars

\* fill returned success and sent nothing on a closed polyline of four
\* segments whose crossings give no polygon around the drawer
C21_Witness ==
    /\ last.op = "callback"
    /\ last.arg.fn = "fill"
    /\ last.result = "ok"
    /\ calls = 1
    /\ draw_requests = << >>
    /\ Len(drawers["a"].drawings.lines) = 5
    /\ drawers["a"].drawings.polygons = << >>

\* the points of a request, as a set
PointSet(request) == {request.points[i] : i \in 1..Len(request.points)}

\* C22: with three drawers that each hold one side of a triangle, fill called
\* for a drawer that stands at the centroid sends exactly one request, whose
\* points are the three vertices, and fill called for a drawer that stands
\* far outside sends none, whatever the iteration order of the registry.
C22_TriangleScenario ==
    [][ (CallDone /\ last'.arg.fn = "fill")
        => /\ drawers[last'.arg.id].pos = TriCentroid
                => /\ Len(draw_requests') = Len(draw_requests) + 1
                   /\ PointSet(Last(draw_requests')) =
                          {Vec3(TriVertices[n][1], TriVertices[n][2], 0) : n \in 1..3}
           /\ drawers[last'.arg.id].pos = TriOutside
                => draw_requests' = draw_requests ]_vars

\* a drawer whose geometry is one strip holding one white point at its
\* position, and no polygon
WipedToPosition(drawer) ==
    [drawer EXCEPT !.drawings =
        [lines |-> << << << <<drawer.pos[1], drawer.pos[2], 0>>,
                            [space |-> "Srgba", rgba |-> <<1, 1, 1, 1>>] >> >> >>,
         polygons |-> << >>]]

\* C23: wipe() outside a recording leaves every drawer with exactly one line
\* strip, which holds exactly one white point at the drawer's position, and
\* with no polygons; position, heading, color and the enabled flag are
\* unchanged.
C23_Wipe ==
    [][ (CallDone /\ last'.arg.fn = "wipe" /\ state # StateRecord)
        => /\ DOMAIN drawers' = DOMAIN drawers
           /\ \A k \in DOMAIN drawers : drawers'[k] = WipedToPosition(drawers[k]) ]_vars

\* C24: every drawer in the registry has at least one line strip, after any
\* sequence of new, center, enable, disable, forward, wipe, rectangle, rotate
\* and requests of fill received by the draw system.
C24_AlwaysAStrip ==
    \A k \in DOMAIN drawers : Len(drawers[k].drawings.lines) >= 1

\* the draw system has added a polygon to the drawer, and forward has then
\* appended a point to the strip that enable started
C24_Witness ==
    /\ last.op = "callback"
    /\ last.arg.fn = "forward"
    /\ last.result = "ok"
    /\ drawers["a"].enabled
    /\ drawers["a"].drawings.polygons # << >>
    /\ Len(Last(drawers["a"].drawings.lines)) = 2

\* the unit step of a heading that lies along an axis
UnitStep(ang) ==
    CASE ang % 360 = 0   -> Vec2(1, 0)
      [] ang % 360 = 90  -> Vec2(0, 1)
      [] ang % 360 = 180 -> Vec2(-1, 0)
      [] ang % 360 = 270 -> Vec2(0, -1)

\* everything of a drawer that forward leaves alone
SameButPath(before, after) ==
    /\ after.ang = before.ang
    /\ after.color = before.color
    /\ after.enabled = before.enabled
    /\ after.drawings.polygons = before.drawings.polygons
    /\ Len(after.drawings.lines) = Len(before.drawings.lines)
    /\ \A n \in 1 .. Len(before.drawings.lines) - 1 :
           after.drawings.lines[n] = before.drawings.lines[n]

\* C25: outside Record, forward on an existing drawer always moves the
\* position by the amount along the heading; when the pen is down it appends
\* exactly one point (the new position, the drawer's color) to the last
\* strip, when the pen is up the strips stay as they were; earlier strips,
\* polygons, heading, color and the enabled flag never change
C25_Forward ==
    [][(/\ CallDone
        /\ last'.arg.fn = "forward"
        /\ state # StateRecord
        /\ last'.arg.id \in DOMAIN drawers)
       => LET id == last'.arg.id
              amount == last'.arg.args[1]
              before == drawers[id]
              after == drawers'[id]
              unit == UnitStep(before.ang)
              moved == Vec2(before.pos[1] + amount * unit[1],
                            before.pos[2] + amount * unit[2])
          IN  /\ last'.result = "ok"
              /\ after.pos = moved
              /\ SameButPath(before, after)
              /\ Last(after.drawings.lines) =
                     IF before.enabled
                     THEN Append(Last(before.drawings.lines),
                                 <<Vec3(moved[1], moved[2], 0), before.color>>)
                     ELSE Last(before.drawings.lines)]_vars

\* forward has drawn a segment to the left with the pen down, on a drawer
\* that holds earlier strips
C25_Witness ==
    /\ last.op = "callback" /\ last.arg.fn = "forward" /\ last.result = "ok"
    /\ drawers["a"].enabled /\ drawers["a"].ang = 180
    /\ Len(drawers["a"].drawings.lines) >= 2
    /\ Len(Last(drawers["a"].drawings.lines)) = 2
    /\ Last(Last(drawers["a"].drawings.lines))[1] =
           Vec3(drawers["a"].pos[1], drawers["a"].pos[2], 0)

\* the sequence names every key of the map exactly once
ListsKeys(names, map) ==
    /\ Len(names) = Cardinality(DOMAIN map)
    /\ {names[n] : n \in 1 .. Len(names)} = DOMAIN map

\* C26: while Recording, notification adds no step to the buffer and no
\* toast; exists, drawers and position, in every buffer state, return what the
\* registry determines (membership, the list of names, the position or the
\* error of an absent drawer) and change neither the registry nor the buffer
C26_Queries ==
    [][CallDone =>
       /\ (last'.arg.fn = "notification" /\ state = StateRecord)
             => (/\ last'.result = "ok"
                 /\ buffer' = buffer
                 /\ toasts' = toasts)
       /\ (last'.arg.fn \in {"exists", "drawers", "position"})
             => (drawers' = drawers /\ buffer' = buffer)
       /\ (last'.arg.fn = "exists")
             => (/\ last'.result = "ok"
                 /\ last'.value = <<last'.arg.id \in DOMAIN drawers>>)
       /\ (last'.arg.fn = "drawers")
             => (last'.result = "ok" /\ ListsKeys(last'.value, drawers))
       /\ (last'.arg.fn = "position")
             => IF last'.arg.id \in DOMAIN drawers
                THEN /\ last'.result = "ok"
                     /\ last'.value = drawers[last'.arg.id].pos
                ELSE last'.result = "error"]_vars

\* a recording script has called notification after recording a step, and a
\* toast of an earlier call outside Record is on screen
C26_Witness ==
    /\ state = StateRecord
    /\ last.op = "call" /\ last.arg.fn = "notification" /\ last.result = "ok"
    /\ buffer # << >>
    /\ Len(toasts) = 1

\* queue after is queue before with requests added at its end
SentBehind(before, after) ==
    /\ Len(after) >= Len(before)
    /\ \A n \in 1 .. Len(before) : after[n] = before[n]

\* the polygon of a request has been pushed onto the drawer
WithPolygon(drawer, request) ==
    [drawer EXCEPT !.drawings.polygons =
        Append(@, [points |-> request.points, color |-> request.color])]

\* C27 as stated: calls send requests behind the queued ones; a frame of the
\* draw system takes exactly the oldest queued request, appends one polygon
\* with its points and color to the drawer its id names, and changes no other
\* drawer
C27_EveryRequestAppends ==
    [][/\ CallDone => SentBehind(draw_requests, draw_requests')
       /\ (last'.op = "draw")
             => LET request == Head(draw_requests)
                IN  /\ draw_requests' = Tail(draw_requests)
                    /\ request.id \in DOMAIN drawers
                    /\ drawers' = [drawers EXCEPT ![request.id] =
                                       WithPolygon(@, request)]]_vars

\* C27, amended: as stated when the drawer the request names is in the
\* registry; a request that names a drawer no longer in the registry is
\* taken from the queue and changes no drawer
C27_RequestOfRegisteredDrawerAppends ==
    [][/\ CallDone => SentBehind(draw_requests, draw_requests')
       /\ (last'.op = "draw")
             => LET request == Head(draw_requests)
                IN  /\ draw_requests' = Tail(draw_requests)
                    /\ drawers' = IF request.id \in DOMAIN drawers
                                  THEN [drawers EXCEPT ![request.id] =
                                           WithPolygon(@, request)]
                                  ELSE drawers]_vars

\* a frame has taken one request of several and pushed its polygon onto "a"
\* while a second drawer is in the registry
C27_Witness ==
    /\ last.op = "draw"
    /\ draw_requests # << >>
    /\ DOMAIN drawers = {"a", "b"}
    /\ Len(drawers["a"].drawings.polygons) = 1

\* C28: after any push or set_len the SetLenBuffer holds at most
\* buffer_length items, and a push onto a full buffer drops exactly the
\* oldest item and keeps the others in order, followed by the pushed item
C28_Bounded ==
    [][(last'.op \in {"push", "set_len"})
       => /\ Len(set_len_buffer'.inner_buffer) <= set_len_buffer'.buffer_length
          /\ (/\ last'.op = "push"
              /\ Len(set_len_buffer.inner_buffer) = set_len_buffer.buffer_length)
                => set_len_buffer'.inner_buffer =
                      Append(Tail(set_len_buffer.inner_buffer), last'.arg)]_vars

\* the drawer with one more strip, of the single point (x, y) in color c
WithStrip(drawer, x, y, c) ==
    [drawer EXCEPT !.drawings.lines = Append(@, << <<Vec3(x, y, 0), c>> >>)]

\* C29: outside Record, on a drawer of the registry: enable sets the enabled
\* flag and pushes a strip holding the current position in the current color,
\* also when the pen was already down; disable clears the flag and changes
\* nothing else; center sets the position to the origin and the heading to 90
\* and pushes a one-point strip at the origin in the current color, and
\* leaves the flag, the color, the earlier strips and the polygons alone
C29_PenAndCenter ==
    [][(/\ CallDone
        /\ last'.arg.fn \in {"enable", "disable", "center"}
        /\ state # StateRecord
        /\ last'.arg.id \in DOMAIN drawers)
       => LET id == last'.arg.id
              before == drawers[id]
              expected ==
                  CASE last'.arg.fn = "enable" ->
                         [WithStrip(before, before.pos[1], before.pos[2], before.color)
                             EXCEPT !.enabled = TRUE]
                    [] last'.arg.fn = "disable" ->
                         [before EXCEPT !.enabled = FALSE]
                    [] last'.arg.fn = "center" ->
                         [WithStrip(before, 0, 0, before.color)
                             EXCEPT !.pos = <<0, 0>>, !.ang = 90]
          IN  /\ last'.result = "ok"
              /\ drawers' = [drawers EXCEPT ![id] = expected]]_vars

\* enable has pushed a second strip in the drawer's color, red, at the place
\* where the pen was already down
C29_Witness ==
    /\ last.op = "callback" /\ last.arg.fn = "enable" /\ last.result = "ok"
    /\ drawers["a"].color # WHITE
    /\ LET lines == drawers["a"].drawings.lines
       IN  /\ Len(lines) >= 3
           /\ lines[Len(lines)] = lines[Len(lines) - 1]
           /\ lines[Len(lines)] = << <<Vec3(drawers["a"].pos[1], drawers["a"].pos[2], 0),
                                       drawers["a"].color>> >>

\* C30: outside Record, after rotate(id, t) on a drawer of the registry,
\* rotate(id, -t) gives back the heading the drawer had before, modulo 360,
\* and the two calls leave the position and the drawings as they were
C30_RotateBack ==
    [][(/\ CallDone
        /\ last'.arg.fn = "rotate"
        /\ state # StateRecord
        /\ last'.arg.id \in DOMAIN drawers)
       => LET id == last'.arg.id
              t == last'.arg.args[1]
              before == drawers[id]
              back == rotate_drawer(EnvAfter, state', id, 0 - t).env.drawers[id]
          IN  /\ back.ang % 360 = before.ang % 360
              /\ back.pos = before.pos
              /\ back.drawings = before.drawings]_vars

\* the text starts with head and ends with tail, and between them stand the
\* parts, in order, with one separator between two of them
Encloses(text, head, parts, tail) ==
    \E sep \in {" ", "\n", "; "} : text = head \o join(parts, sep) \o tail

\* C31: the rendering of Loop(count, steps) is "for i=1,<count> do ", the
\* renderings of the inner steps in order, and " end"; the rendering of
\* Loop(3, [Forward(id, 10)]) is exactly for i=1,3 do forward("id", 10) end
C31_LoopRendering ==
    (last.op = "to_string" /\ last.arg.kind = "Loop")
    => /\ Encloses(last.value[1],
                   "for i=1," \o ToString(last.arg.args[1]) \o " do ",
                   [i \in 1 .. Len(last.arg.body) |-> fmt(last.arg.body[i])],
                   " end")
       /\ (last.arg = LoopStep(3, << Step("Forward", "id", <<10>>) >>))
             => last.value[1] = "for i=1,3 do forward(\"id\", 10) end"

\* Loop(3, [Forward(id, 10)]) has been rendered
C31_Witness ==
    /\ last.op = "to_string"
    /\ last.arg = LoopStep(3, << Step("Forward", "id", <<10>>) >>)
    /\ last.value # << >>

\* no number of the step, or of a step in its body, is NaN
RECURSIVE Finite(_)
Finite(step) ==
    /\ \A n \in 1 .. Len(step.args) : step.args[n] # NaN
    /\ \A i \in 1 .. Len(step.body) : Finite(step.body[i])

\* C32: no step in the step buffer, or in a recorded demo, carries NaN; the
\* step a recording call of forward, rotate, set_drawer_angle, color,
\* rectangle or point_to logs holds the call's numbers in order, with 0 in
\* the place of every NaN
C32_NoNaNStored ==
    [][/\ \A i \in 1 .. Len(buffer') : Finite(buffer'[i])
       /\ \A d \in 1 .. Len(demos') :
             \A i \in 1 .. Len(demos'[d].demo_steps) : Finite(demos'[d].demo_steps[i])
       /\ (/\ CallDone
           /\ state = StateRecord
           /\ last'.result = "ok"
           /\ last'.arg.fn \in {"forward", "rotate", "set_drawer_angle", "color",
                                 "rectangle", "point_to"})
             => /\ Len(buffer') = Len(buffer) + 1
                /\ Last(buffer').args =
                       [n \in 1 .. Len(last'.arg.args) |->
                           IF last'.arg.args[n] = NaN THEN 0 ELSE last'.arg.args[n]]]_vars

\* a recording script has called color with NaN for red and blue, and the
\* step holds 0 for both
C32_Witness ==
    /\ state = StateRecord
    /\ last.op = "call" /\ last.arg = Call("color", "a", <<NaN, 0, NaN, 1>>)
    /\ last.result = "ok"
    /\ Last(buffer).kind = "Color" /\ Last(buffer).args = <<0, 0, 0, 1>>

\* the registry is what steps 0 to the cursor, each executed once and in
\* order, produce on a cleared registry
ReplayedToCursor ==
    \E perm \in Perms :
        LET r == replay_steps(Cleared, state, SubSeq(buffer, 1, iter_idx + 1), perm)
        IN  r.ok /\ drawers = r.env.drawers

\* C33: in Playback, after a step forward or a step backward that succeeded,
\* the registry is the result of steps 0 to the cursor inclusive, executed
\* once each and in order on a cleared registry (so that a step backward
\* undoes a step forward, and a step forward after it skips no step)
C33_PlaybackConsistency ==
    (/\ state = StatePlayback
     /\ ~crashed
     /\ last.op \in {"step_forward", "step_backward"}
     /\ last.result = "ok")
    => ReplayedToCursor

\* C34: in every state with buffer state Playback the step buffer holds a
\* step and the cursor is the index of one of its steps, so that the
\* Playback Manager window indexes the buffer in bounds
C34_CursorInBounds ==
    state = StatePlayback
      => /\ buffer # << >>
         /\ 0 <= iter_idx
         /\ iter_idx < Len(buffer)

\* C35: a call made, or a demo step replayed, while the buffer state is None
\* or Playback leaves the step buffer as it is; entering a playback sets the
\* buffer to the steps of the demo that was clicked, and no step taken
\* during the playback changes it (so that a replayed step never asks for the
\* write lock of the buffer the playback view reads)
C35_BufferWrittenOnlyInRecord ==
    [][/\ (/\ state \in {StateNone, StatePlayback}
           /\ last'.op \in {"call", "callback", "step_forward", "step_backward"})
             => buffer' = buffer
       /\ (last'.op = "playback" /\ last'.result = "ok")
             => buffer' = demos[last'.arg].demo_steps
       /\ (state = StatePlayback /\ state' = StatePlayback)
             => buffer' = buffer]_vars

\* a callback has called print during a playback: the message is in the
\* output list and the buffer holds the demo's steps
C35_Witness ==
    /\ state = StatePlayback
    /\ last.op = "callback" /\ last.arg.fn = "print" /\ last.result = "ok"
    /\ output_list # << >>
    /\ \E i \in 1 .. Len(demos) : buffer = demos[i].demo_steps

\* C36: in every state, the last point of the last strip of every drawer
\* whose pen is down is the drawer's position
C36_PenAtPosition ==
    \A k \in DOMAIN drawers :
        drawers[k].enabled
          => Last(Last(drawers[k].drawings.lines))[1] =
                Vec3(drawers[k].pos[1], drawers[k].pos[2], 0)

\* wipe has left a drawer whose pen is down away from the origin with a
\* strip that holds its position
C36_Witness ==
    /\ last.op = "callback" /\ last.arg.fn = "wipe" /\ last.result = "ok"
    /\ "a" \in DOMAIN drawers
    /\ drawers["a"].enabled
    /\ drawers["a"].pos # <<0, 0>>
    /\ Len(Last(drawers["a"].drawings.lines)) = 1

\* C37: a fill call sends no request when the points of all drawers, taken
\* together, make three segments or fewer (four points or fewer), whatever
\* the shape and wherever the drawer stands; a closed triangle is not filled.
C37_NoFillUpToThreeSegments ==
    [][(/\ CallDone
        /\ last'.arg.fn = "fill"
        /\ \A perm \in Perms : Len(ScannedLines(perm)) <= 3)
          => draw_requests' = draw_requests]_vars

\* fill has returned Ok for a drawer standing inside its closed triangle,
\* and nothing was sent
C37_Witness ==
    /\ last.op \in {"call", "callback"} /\ last.arg.fn = "fill" /\ last.result = "ok"
    /\ DOMAIN drawers = {"a"}
    /\ drawers["a"].pos = Vec2(1, 1)
    /\ \A perm \in Perms :
          /\ Len(ScannedLines(perm)) = 3
          /\ ScannedLines(perm)[1].min = ScannedLines(perm)[3].max
          /\ hull_contains(flatten_drawers(drawers, key_order(drawers, perm)),
                           drawers["a"].pos)
    /\ draw_requests = << >>

\* C38: a fill call leaves the registry as it is (polygons are added later,
\* by the draw system), and a fill call made while the buffer state is Record
\* sends no fill request.
C38_FillLeavesRegistry ==
    [][(CallDone /\ last'.arg.fn = "fill")
          => /\ drawers' = drawers
             /\ state = StateRecord => draw_requests' = draw_requests]_vars

\* a recording script has called fill for the drawer it created, after
\* Create Demo was clicked over a drawing whose fill sends a request; the
\* step is in the buffer and nothing is queued
C38_Witness ==
    /\ last.op = "call" /\ last.arg.fn = "fill" /\ last.result = "ok"
    /\ state = StateRecord
    /\ "a" \in DOMAIN current_drawer_canvas
    /\ \E perm \in Perms :
          fill_requests(current_drawer_canvas,
                        key_order(current_drawer_canvas, perm), "a") # << >>
    /\ buffer # << >> /\ Last(buffer) = Step("Fill", "a", << >>)
    /\ draw_requests = << >>

\* a fill call outside Record has sent a request and the registry is as it
\* was before the call: the drawer has no polygon
C38_WitnessSent ==
    /\ last.op = "callback" /\ last.arg.fn = "fill" /\ last.result = "ok"
    /\ state = StateNone
    /\ draw_requests # << >>
    /\ "a" \in DOMAIN drawers
    /\ drawers["a"].drawings.polygons = << >>

\* a queued request is taken from the queue
Consumed == (draw_requests # << >>) ~> (draw_requests = << >>)

\* a frame that takes a request whose drawer is not in the registry changes
\* no drawer and does not queue the request again
DiscardedWhenAbsent ==
    (last'.op = "draw" /\ Head(draw_requests).id \notin DOMAIN drawers)
        => /\ drawers' = drawers
           /\ draw_requests' = Tail(draw_requests)

\* drawer k has more polygons after the step than before it
GainsPolygon(k) ==
    /\ k \in DOMAIN drawers'
    /\ Len(drawers'[k].drawings.polygons)
          > (IF k \in DOMAIN drawers THEN Len(drawers[k].drawings.polygons) ELSE 0)

\* the step is a frame of the draw system taking a request of drawer k
ConsumesRequestOf(k) == last'.op = "draw" /\ Head(draw_requests).id = k

\* C39 as stated: with frames running every queued request is consumed; a
\* request whose drawer is gone is discarded, changes no drawer and is not
\* retried; a drawer gains a polygon only when a request carrying its id is
\* consumed
C39_PolygonsOnlyFromRequests ==
    /\ Consumed
    /\ [][DiscardedWhenAbsent]_vars
    /\ [][\A k \in Ids : GainsPolygon(k) => ConsumesRequestOf(k)]_vars

\* C39, amended: as stated, except that a drawer gains a polygon either when
\* a request carrying its id is consumed or when rectangle is called for it
C39_PolygonsFromRequestsAndRectangle ==
    /\ Consumed
    /\ [][DiscardedWhenAbsent]_vars
    /\ [][\A k \in Ids :
            GainsPolygon(k)
              => \/ ConsumesRequestOf(k)
                 \/ /\ CallDone
                    /\ last'.arg.fn = "rectangle"
                    /\ last'.arg.id = k]_vars

\* a frame has taken the last queued request, whose drawer had been removed
\* after fill sent it, and the drawer that is left has no polygon
C39_Witness ==
    /\ last.op = "draw"
    /\ draw_requests = << >>
    /\ DOMAIN drawers = {"b"}
    /\ drawers["b"].drawings.polygons = << >>

\* C40: while the buffer state is Playback the registry is changed only by
\* the playback operations; no script run, command line command or callback
\* of a running script changes it. A step that begins and ends in Playback
\* and changes the registry is the Playback button or a step button (close
\* ends in None), and no call of a registered function made in Playback
\* changes the registry.
C40_PlaybackOwnsRegistry ==
    [][/\ (state = StatePlayback /\ state' = StatePlayback /\ drawers' # drawers)
             => last'.op \in {"playback", "step_forward", "step_backward"}
       /\ (state = StatePlayback /\ CallDone) => drawers' = drawers]_vars

====
